---------------------------- MODULE Spec2Model ----------------------------
(***************************************************************************)
(* Waveform-Synthesizer: the waveform extractor (waveformExtractor.js, kept *)
(* in src/unnamed/part_003) and the synth audio engine                      *)
(* (src/unnamed/part_002) as a state machine.                               *)
(*                                                                         *)
(* Numbers.  JavaScript numbers are modelled as exact rationals <<n, d>> in *)
(* lowest terms with d > 0; <<0, 0>> is NaN and <<1, 0>>, <<-1, 0>> are the *)
(* infinities (they occur only as image dimensions).  Float32Array and      *)
(* double rounding are not modelled: every stored value is the exact        *)
(* result.  Typed arrays are functions over 0 .. length-1, as in the code.  *)
(* An image keeps the red channel only (data[(y*width + x)*4] in the code   *)
(* is data[y*width + x] here): no other channel is read by the extractor.   *)
(***************************************************************************)
EXTENDS Integers, Sequences, FiniteSets, TLC

VARIABLES
  image,                \* the ImageData handed to extractWaveformFromImageData
  pc,                   \* the statement the running call executes next
  rawTracePath,         \* findCenterOfMassTracePath's result (Int16Array)
  tracePath,            \* trimTracePathByConfidence's result
  amplitude,            \* the waveform as first filled from tracePath
  waveform,             \* the Float32Array the post-processing mutates in place
  result,               \* what the call returned: "pending", "null", "waveform"
  pathY,                \* the path handed to trimTracePathByConfidence
  samples,              \* the samples handed to buildPeriodicWaveFromSamples
  audioContext,         \* audio engine: "null" or "running"
  latestAudioWaveform,  \* audio engine: prepared waveform, or Null
  currentPeriodicWave,  \* audio engine: <<real, imag>>, or Null
  heap,                 \* image processor: the ImageData objects allocated so far
  refs,                 \* image processor: the input and each stage's returned object
  percentile,           \* the percentile handed to getGrayPercentile
  percentileOut,        \* what getGrayPercentile returned
  buffers,              \* cleanupMask: its arrays stageA, stageB and stageC
  confidence,           \* trimmer: smoothedConf, the smoothed per-column confidence
  scan,                 \* trimmer: inTrace, start, highCount, lowCount, spans
  column,               \* trimmer: the column x the hysteresis loop is at
  synthOscillator,      \* audio engine: the oscillator referenced, or 0 for null
  oscillators,          \* audio engine: every oscillator created so far
  resuming,             \* audio engine: startSynth calls awaiting audioContext.resume()
  status,               \* audio engine: the status text
  currentStream,        \* camera: the stream referenced, or 0 for null
  streams,              \* camera: every stream getUserMedia has resolved with
  requesting,           \* camera: startCamera calls awaiting getUserMedia
  preferredFacing       \* camera: "user" or "environment"

\* The image processor's variables.
preprocessingVars == <<heap, refs, percentile, percentileOut, buffers>>

\* The variables of the trimmer's hysteresis loop.
scanVars == <<confidence, scan, column>>

\* The variables of the play button and of the camera buttons.
controlVars == <<synthOscillator, oscillators, resuming, status,
                 currentStream, streams, requesting, preferredFacing>>

vars == <<image, pc, rawTracePath, tracePath, amplitude, waveform, result,
          pathY, samples, audioContext, latestAudioWaveform, currentPeriodicWave,
          preprocessingVars, controlVars,
          scanVars>>

---------------------------------------------------------------------------
(* Numbers *)

Abs(n) == IF n < 0 THEN -n ELSE n

RECURSIVE GCD(_, _)
GCD(a, b) == IF b = 0 THEN a ELSE GCD(b, a % b)

NaN == <<0, 0>>
PosInfinity == <<1, 0>>
NegInfinity == <<-1, 0>>

Frac(n, d) ==
  IF d = 0 THEN NaN
  ELSE LET s == IF d < 0 THEN -1 ELSE 1
           g == GCD(Abs(n), Abs(d))
       IN  <<(s * n) \div g, (s * d) \div g>>

Num(n) == <<n, 1>>
Zero == <<0, 1>>
One == <<1, 1>>

IsNaN(a) == a = NaN
IsFinite(a) == a[2] # 0

Neg(a) == <<-a[1], a[2]>>

Add(a, b) ==
  IF ~IsFinite(a) \/ ~IsFinite(b) THEN NaN
  ELSE LET g == GCD(a[2], b[2])
       IN  Frac(a[1] * (b[2] \div g) + b[1] * (a[2] \div g), (a[2] \div g) * b[2])

Sub(a, b) == Add(a, Neg(b))

Mul(a, b) ==
  IF ~IsFinite(a) \/ ~IsFinite(b) THEN NaN
  ELSE LET g1 == GCD(Abs(a[1]), b[2])
           g2 == GCD(Abs(b[1]), a[2])
       IN  <<(a[1] \div g1) * (b[1] \div g2), (a[2] \div g2) * (b[2] \div g1)>>

Div(a, b) ==
  IF ~IsFinite(a) \/ ~IsFinite(b) \/ b[1] = 0 THEN NaN
  ELSE Mul(a, Frac(b[2], b[1]))

\* Comparisons are false when an operand is NaN, as in JavaScript.
Lt(a, b) == IsFinite(a) /\ IsFinite(b) /\ Sub(a, b)[1] < 0
Le(a, b) == IsFinite(a) /\ IsFinite(b) /\ Sub(a, b)[1] <= 0
Gt(a, b) == Lt(b, a)
Ge(a, b) == Le(b, a)

AbsNum(a) == <<Abs(a[1]), a[2]>>
MinNum(a, b) == IF Lt(b, a) THEN b ELSE a

Floor(a) == a[1] \div a[2]
Ceil(a) == -((-a[1]) \div a[2])
\* Math.round: the nearest integer, halves towards +Infinity.
Round(a) == (2 * a[1] + a[2]) \div (2 * a[2])
\* The value an Int16Array element holds after storing the integer n.
ToInt16(n) == ((n + 32768) % 65536) - 32768

Length(arr) == Cardinality(DOMAIN arr)
\* The integer sum of values[lo .. hi].
RECURSIVE SumInts(_, _, _)
SumInts(values, lo, hi) ==
  IF lo > hi THEN 0
  ELSE IF lo = hi THEN values[lo]
  ELSE LET mid == (lo + hi) \div 2
       IN  SumInts(values, lo, mid) + SumInts(values, mid + 1, hi)
\* A typed array that a loop has filled: every element is computed when the
\* array is built, not when it is first read.
Filled(arr) == IF arr = arr THEN arr ELSE arr
Null == <<"null">>

---------------------------------------------------------------------------
(* waveformExtractor.js: configuration *)

DEFAULT_FOREGROUND_CUTOFF == 200

TRIM_CONFIDENCE_CONFIG ==
  [confWindowRadius |-> 1,
   smoothRadius |-> 4,
   highThreshold |-> Frac(45, 100),
   lowThreshold |-> Frac(28, 100),
   enterRun |-> 6,
   exitRun |-> 8,
   minSpanColumnsRatio |-> Frac(15, 100),
   minSpanColumnsFloor |-> 12,
   continuityMaxDelta |-> 12,
   minKeepValidColumnsRatio |-> Frac(8, 100),
   minKeepValidColumnsFloor |-> 10]

CENTER_OF_MASS_CONFIG ==
  [bandHalfWidth |-> 20,
   minForegroundCount |-> 3,
   maxJumpPx |-> 12,
   medianRadius |-> 3]

WAVEFORM_POSTPROCESSING_CONFIG == [interpolationMaxGap |-> 30]

clamp(value, min, max) ==
  LET m == IF max < value THEN max ELSE value
  IN  IF min > m THEN min ELSE m

Width(img) == img.width[1]
Height(img) == img.height[1]
Pixel(img, x, y) == img.data[y * Width(img) + x]

---------------------------------------------------------------------------
(* findCenterOfMassTracePath *)

\* The loop of computeColumnCOM over rows yMin .. yMax: <<sum of brightness,
\* sum of y * brightness, foregroundCount>> (the weights are brightness/255;
\* the common 1/255 cancels in weightedY / weightSum).  The sums are exact, so
\* the range is split in halves instead of being added top to bottom.
RECURSIVE ColumnSums(_, _, _, _, _)
ColumnSums(img, cutoff, x, yMin, yMax) ==
  IF yMin > yMax THEN <<0, 0, 0>>
  ELSE IF yMin = yMax
  THEN LET brightness == Pixel(img, x, yMin)
       IN  IF brightness < cutoff THEN <<0, 0, 0>>
           ELSE <<brightness, yMin * brightness, 1>>
  ELSE LET mid == (yMin + yMax) \div 2
           upper == ColumnSums(img, cutoff, x, yMin, mid)
           lower == ColumnSums(img, cutoff, x, mid + 1, yMax)
       IN  <<upper[1] + lower[1], upper[2] + lower[2], upper[3] + lower[3]>>

\* A faulty variant: a column with exactly minForegroundCount foreground pixels
\* is rejected (<= for <).
computeColumnCOMStrictCount(img, cutoff, x, yMin, yMax) ==
  LET s == ColumnSums(img, cutoff, x, yMin, yMax)
  IN  IF s[3] <= CENTER_OF_MASS_CONFIG.minForegroundCount \/ s[1] <= 0
      THEN NaN
      ELSE Frac(s[2], s[1])

computeColumnCOM(img, cutoff, x, yMin, yMax) ==
  LET s == ColumnSums(img, cutoff, x, yMin, yMax)
  IN  IF s[3] < CENTER_OF_MASS_CONFIG.minForegroundCount \/ s[1] <= 0
      THEN NaN
      ELSE Frac(s[2], s[1])

\* A faulty variant: an estimate that jumps away from prev is kept.
TrackColumnKeepJumps(img, cutoff, x, path) ==
  LET height == Height(img)
      prev == IF x > 0 THEN path[x - 1] ELSE NaN
      prev2 == IF x > 1 THEN path[x - 2] ELSE NaN
      predictedY == IF IsFinite(prev) /\ IsFinite(prev2)
                    THEN Add(prev, Sub(prev, prev2))
                    ELSE IF IsFinite(prev) THEN prev
                    ELSE Frac(height, 2)
      band == Num(CENTER_OF_MASS_CONFIG.bandHalfWidth)
      yMinBand == clamp(Floor(Sub(predictedY, band)), 0, height - 1)
      yMaxBand == clamp(Ceil(Add(predictedY, band)), 0, height - 1)
      inBand == computeColumnCOM(img, cutoff, x, yMinBand, yMaxBand)
      yEstimate == IF IsFinite(inBand) THEN inBand
                   ELSE computeColumnCOM(img, cutoff, x, 0, height - 1)
  IN  IF ~IsFinite(yEstimate) THEN NaN ELSE yEstimate

\* A faulty variant: the band is centred at prev even when prev2 is valid.
TrackColumnCentredAtPrev(img, cutoff, x, path) ==
  LET height == Height(img)
      prev == IF x > 0 THEN path[x - 1] ELSE NaN
      predictedY == IF IsFinite(prev) THEN prev ELSE Frac(height, 2)
      band == Num(CENTER_OF_MASS_CONFIG.bandHalfWidth)
      yMinBand == clamp(Floor(Sub(predictedY, band)), 0, height - 1)
      yMaxBand == clamp(Ceil(Add(predictedY, band)), 0, height - 1)
      inBand == computeColumnCOM(img, cutoff, x, yMinBand, yMaxBand)
      yEstimate == IF IsFinite(inBand) THEN inBand
                   ELSE computeColumnCOM(img, cutoff, x, 0, height - 1)
  IN  IF ~IsFinite(yEstimate) THEN NaN
      ELSE IF IsFinite(prev)
              /\ Gt(AbsNum(Sub(yEstimate, prev)), Num(CENTER_OF_MASS_CONFIG.maxJumpPx))
           THEN NaN
           ELSE yEstimate

\* A faulty variant: prev is the nearest valid estimate to the left, looked
\* up across a no-data column.
TrackColumnAcrossGaps(img, cutoff, x, path) ==
  LET height == Height(img)
      prev == IF x > 0 /\ IsFinite(path[x - 1]) THEN path[x - 1]
              ELSE IF x > 1 THEN path[x - 2] ELSE NaN
      prev2 == IF x > 1 /\ IsFinite(path[x - 1]) THEN path[x - 2] ELSE NaN
      predictedY == IF IsFinite(prev) /\ IsFinite(prev2)
                    THEN Add(prev, Sub(prev, prev2))
                    ELSE IF IsFinite(prev) THEN prev
                    ELSE Frac(height, 2)
      band == Num(CENTER_OF_MASS_CONFIG.bandHalfWidth)
      yMinBand == clamp(Floor(Sub(predictedY, band)), 0, height - 1)
      yMaxBand == clamp(Ceil(Add(predictedY, band)), 0, height - 1)
      inBand == computeColumnCOM(img, cutoff, x, yMinBand, yMaxBand)
      yEstimate == IF IsFinite(inBand) THEN inBand
                   ELSE computeColumnCOM(img, cutoff, x, 0, height - 1)
  IN  IF ~IsFinite(yEstimate) THEN NaN
      ELSE IF IsFinite(prev)
              /\ Gt(AbsNum(Sub(yEstimate, prev)), Num(CENTER_OF_MASS_CONFIG.maxJumpPx))
           THEN NaN
           ELSE yEstimate

\* One iteration of the left-to-right loop: the value written to pathY[x].
TrackColumn(img, cutoff, x, path) ==
  LET height == Height(img)
      prev == IF x > 0 THEN path[x - 1] ELSE NaN
      prev2 == IF x > 1 THEN path[x - 2] ELSE NaN
      predictedY == IF IsFinite(prev) /\ IsFinite(prev2)
                    THEN Add(prev, Sub(prev, prev2))
                    ELSE IF IsFinite(prev) THEN prev
                    ELSE Frac(height, 2)
      band == Num(CENTER_OF_MASS_CONFIG.bandHalfWidth)
      yMinBand == clamp(Floor(Sub(predictedY, band)), 0, height - 1)
      yMaxBand == clamp(Ceil(Add(predictedY, band)), 0, height - 1)
      inBand == computeColumnCOM(img, cutoff, x, yMinBand, yMaxBand)
      yEstimate == IF IsFinite(inBand) THEN inBand
                   ELSE computeColumnCOM(img, cutoff, x, 0, height - 1)
  IN  IF ~IsFinite(yEstimate) THEN NaN
      ELSE IF IsFinite(prev)
              /\ Gt(AbsNum(Sub(yEstimate, prev)), Num(CENTER_OF_MASS_CONFIG.maxJumpPx))
           THEN NaN
           ELSE yEstimate

\* The iterations of the left-to-right loop for columns lo .. hi, in order,
\* applied to path: the columns lo .. mid first, then mid + 1 .. hi on the
\* path that these leave (its length is that of path, so the test holds).
RECURSIVE TrackColumns(_, _, _, _, _)
TrackColumns(img, cutoff, path, lo, hi) ==
  IF lo > hi THEN path
  ELSE IF lo = hi THEN [path EXCEPT ![lo] = TrackColumn(img, cutoff, lo, path)]
  ELSE LET mid == (lo + hi) \div 2
           left == TrackColumns(img, cutoff, path, lo, mid)
       IN  IF Length(left) > mid
           THEN TrackColumns(img, cutoff, left, mid + 1, hi)
           ELSE left

\* pathY after the left-to-right pass, before the median filter; it starts
\* as all NaN.
rawCenterOfMassPath(img, cutoff) ==
  Filled(TrackColumns(img, cutoff, Filled([i \in 0 .. Width(img) - 1 |-> NaN]),
                      0, Width(img) - 1))

\* finite.sort((a, b) => a - b) by insertion.
RECURSIVE InsertSorted(_, _)
InsertSorted(sorted, v) ==
  IF sorted = <<>> THEN <<v>>
  ELSE IF Le(v, Head(sorted)) THEN <<v>> \o sorted
  ELSE <<Head(sorted)>> \o InsertSorted(Tail(sorted), v)

RECURSIVE FiniteSorted(_, _, _)
FiniteSorted(values, start, end) ==
  IF start > end THEN <<>>
  ELSE LET rest == FiniteSorted(values, start + 1, end)
       IN  IF IsFinite(values[start]) THEN InsertSorted(rest, values[start]) ELSE rest

getMedianOfFiniteWindow(values, start, end) ==
  LET finite == FiniteSorted(values, start, end)
  IN  IF Len(finite) = 0 THEN NaN
      ELSE finite[(Len(finite) \div 2) + 1]

medianFilterFinite1D(values, radius) ==
  IF radius <= 0 THEN values
  ELSE LET n == Length(values)
       IN  Filled([i \in 0 .. n - 1 |->
             LET start == IF i - radius < 0 THEN 0 ELSE i - radius
                 end == IF i + radius > n - 1 THEN n - 1 ELSE i + radius
                 median == getMedianOfFiniteWindow(values, start, end)
             IN  IF IsFinite(median) THEN median ELSE values[i]])

quantizePath(smoothed) ==
  Filled([i \in DOMAIN smoothed |->
     IF IsFinite(smoothed[i]) THEN ToInt16(Round(smoothed[i])) ELSE -1])

findCenterOfMassTracePath(img, cutoff) ==
  quantizePath(medianFilterFinite1D(rawCenterOfMassPath(img, cutoff),
                                    CENTER_OF_MASS_CONFIG.medianRadius))

---------------------------------------------------------------------------
(* trimTracePathByConfidence *)

getForegroundDensity(img, x, y, radiusX, radiusY, cutoff) ==
  LET cells == {<<dx, dy>> \in (-radiusX .. radiusX) \X (-radiusY .. radiusY) : TRUE}
      foreground ==
        Cardinality({c \in cells :
          Pixel(img, clamp(x + c[1], 0, Width(img) - 1),
                     clamp(y + c[2], 0, Height(img) - 1)) >= cutoff})
      total == Cardinality(cells)
  IN  IF total > 0 THEN Frac(foreground, total) ELSE Zero

countValidPathPoints(path) == Cardinality({i \in DOMAIN path : path[i] >= 0})

minSpanColumns(width) ==
  LET byRatio == Floor(Mul(Num(width), TRIM_CONFIDENCE_CONFIG.minSpanColumnsRatio))
      floor == TRIM_CONFIDENCE_CONFIG.minSpanColumnsFloor
  IN  IF byRatio > floor THEN byRatio ELSE floor

minKeepValidColumns(width) ==
  LET byRatio == Floor(Mul(Num(width), TRIM_CONFIDENCE_CONFIG.minKeepValidColumnsRatio))
      floor == TRIM_CONFIDENCE_CONFIG.minKeepValidColumnsFloor
  IN  IF byRatio > floor THEN byRatio ELSE floor

\* One column's confidence, given prevValidY: <<y>>, or <<>> for null.
columnConfidence(path, img, cutoff, x, prevValidY) ==
  LET y == path[x]
      r == TRIM_CONFIDENCE_CONFIG.confWindowRadius
      localDensity == getForegroundDensity(img, x, y, r, r, cutoff)
      continuityScore ==
        IF Len(prevValidY) = 0 THEN Frac(7, 10)
        ELSE Sub(One, MinNum(One, Frac(Abs(y - prevValidY[1]),
                                       TRIM_CONFIDENCE_CONFIG.continuityMaxDelta)))
  IN  Add(Mul(Frac(3, 4), localDensity), Mul(Frac(1, 4), continuityScore))

\* The last column in lo .. hi where the path is valid, -1 when there is none.
RECURSIVE LastValid(_, _, _)
LastValid(path, lo, hi) ==
  IF lo > hi THEN -1
  ELSE IF lo = hi THEN (IF path[lo] >= 0 THEN lo ELSE -1)
  ELSE LET mid == (lo + hi) \div 2
           right == LastValid(path, mid + 1, hi)
       IN  IF right >= 0 THEN right ELSE LastValid(path, lo, mid)

\* prevValidY when the confidence loop reaches column x: the y of the nearest
\* valid column to the left, <<>> when there is none.
prevValidBefore(path, x) ==
  LET last == LastValid(path, 0, x - 1)
  IN  IF last < 0 THEN <<>> ELSE <<path[last]>>

\* The confidence loop: conf[x] stays 0 where the path has no data.
pathConfidence(path, img, cutoff) ==
  Filled([x \in 0 .. Width(img) - 1 |->
     IF path[x] < 0 THEN Zero
     ELSE columnConfidence(path, img, cutoff, x, prevValidBefore(path, x))])

\* values[start] + ... + values[end], exact, the range split in halves.
RECURSIVE SumRange(_, _, _)
SumRange(values, start, end) ==
  IF start > end THEN Zero
  ELSE IF start = end THEN values[start]
  ELSE LET mid == (start + end) \div 2
       IN  Add(SumRange(values, start, mid), SumRange(values, mid + 1, end))

movingAverage1D(values, radius) ==
  IF radius <= 0 THEN values
  ELSE LET n == Length(values)
       IN  Filled([i \in 0 .. n - 1 |->
             LET start == IF i - radius < 0 THEN 0 ELSE i - radius
                 end == IF i + radius > n - 1 THEN n - 1 ELSE i + radius
                 count == end - start + 1
             IN  IF count > 0 THEN Div(SumRange(values, start, end), Num(count))
                 ELSE Zero])

\* smoothedConf is a Float32Array and the thresholds are doubles.  The float32
\* nearest to 0.45 is below the double 0.45 and the float32 nearest to 0.28
\* is above the double 0.28, so a stored value whose exact average equals a
\* threshold fails both `c >= highThreshold` and `c <= lowThreshold`.
atOrAboveHigh(c) == Gt(c, TRIM_CONFIDENCE_CONFIG.highThreshold)
atOrBelowLow(c) == Lt(c, TRIM_CONFIDENCE_CONFIG.lowThreshold)

ScanStart == [inTrace |-> FALSE, start |-> -1, highCount |-> 0, lowCount |-> 0,
              spans |-> <<>>]

\* A faulty variant of scanColumn: on entering a span, start is the column
\* that completed the run instead of the column that began it.
scanColumnStartAtRunEnd(st, x, c) ==
  IF ~st.inTrace
  THEN LET highCount == IF atOrAboveHigh(c) THEN st.highCount + 1 ELSE 0
       IN  IF highCount >= TRIM_CONFIDENCE_CONFIG.enterRun
           THEN [st EXCEPT !.highCount = highCount, !.inTrace = TRUE,
                           !.start = x, !.lowCount = 0]
           ELSE [st EXCEPT !.highCount = highCount]
  ELSE LET lowCount == IF atOrBelowLow(c) THEN st.lowCount + 1 ELSE 0
       IN  IF lowCount >= TRIM_CONFIDENCE_CONFIG.exitRun
           THEN LET end == x - TRIM_CONFIDENCE_CONFIG.exitRun
                IN  [inTrace |-> FALSE, start |-> -1, highCount |-> 0, lowCount |-> 0,
                     spans |-> IF st.start >= 0 /\ end >= st.start
                               THEN Append(st.spans,
                                      [start |-> st.start, end |-> end,
                                       length |-> end - st.start + 1])
                               ELSE st.spans]
           ELSE [st EXCEPT !.lowCount = lowCount]

\* A faulty variant of scanColumn: while searching, a column below
\* highThreshold leaves highCount as it is.
scanColumnKeepCount(st, x, c) ==
  IF ~st.inTrace
  THEN LET highCount == IF atOrAboveHigh(c) THEN st.highCount + 1 ELSE st.highCount
       IN  IF highCount >= TRIM_CONFIDENCE_CONFIG.enterRun
           THEN [st EXCEPT !.highCount = highCount, !.inTrace = TRUE,
                           !.start = x - TRIM_CONFIDENCE_CONFIG.enterRun + 1,
                           !.lowCount = 0]
           ELSE [st EXCEPT !.highCount = highCount]
  ELSE LET lowCount == IF atOrBelowLow(c) THEN st.lowCount + 1 ELSE 0
       IN  IF lowCount >= TRIM_CONFIDENCE_CONFIG.exitRun
           THEN LET end == x - TRIM_CONFIDENCE_CONFIG.exitRun
                IN  [inTrace |-> FALSE, start |-> -1, highCount |-> 0, lowCount |-> 0,
                     spans |-> IF st.start >= 0 /\ end >= st.start
                               THEN Append(st.spans,
                                      [start |-> st.start, end |-> end,
                                       length |-> end - st.start + 1])
                               ELSE st.spans]
           ELSE [st EXCEPT !.lowCount = lowCount]

\* A faulty variant of scanColumn: on closing a span, end is the column that
\* completed the low run instead of the last column before the run.
scanColumnEndAtRunEnd(st, x, c) ==
  IF ~st.inTrace
  THEN LET highCount == IF atOrAboveHigh(c) THEN st.highCount + 1 ELSE 0
       IN  IF highCount >= TRIM_CONFIDENCE_CONFIG.enterRun
           THEN [st EXCEPT !.highCount = highCount, !.inTrace = TRUE,
                           !.start = x - TRIM_CONFIDENCE_CONFIG.enterRun + 1,
                           !.lowCount = 0]
           ELSE [st EXCEPT !.highCount = highCount]
  ELSE LET lowCount == IF atOrBelowLow(c) THEN st.lowCount + 1 ELSE 0
       IN  IF lowCount >= TRIM_CONFIDENCE_CONFIG.exitRun
           THEN LET end == x
                IN  [inTrace |-> FALSE, start |-> -1, highCount |-> 0, lowCount |-> 0,
                     spans |-> IF st.start >= 0 /\ end >= st.start
                               THEN Append(st.spans,
                                      [start |-> st.start, end |-> end,
                                       length |-> end - st.start + 1])
                               ELSE st.spans]
           ELSE [st EXCEPT !.lowCount = lowCount]

\* One iteration of the hysteresis loop: column x, smoothed confidence c.
scanColumn(st, x, c) ==
  IF ~st.inTrace
  THEN LET highCount == IF atOrAboveHigh(c) THEN st.highCount + 1 ELSE 0
       IN  IF highCount >= TRIM_CONFIDENCE_CONFIG.enterRun
           THEN [st EXCEPT !.highCount = highCount, !.inTrace = TRUE,
                           !.start = x - TRIM_CONFIDENCE_CONFIG.enterRun + 1,
                           !.lowCount = 0]
           ELSE [st EXCEPT !.highCount = highCount]
  ELSE LET lowCount == IF atOrBelowLow(c) THEN st.lowCount + 1 ELSE 0
       IN  IF lowCount >= TRIM_CONFIDENCE_CONFIG.exitRun
           THEN LET end == x - TRIM_CONFIDENCE_CONFIG.exitRun
                IN  [inTrace |-> FALSE, start |-> -1, highCount |-> 0, lowCount |-> 0,
                     spans |-> IF st.start >= 0 /\ end >= st.start
                               THEN Append(st.spans,
                                      [start |-> st.start, end |-> end,
                                       length |-> end - st.start + 1])
                               ELSE st.spans]
           ELSE [st EXCEPT !.lowCount = lowCount]

\* The iterations of the hysteresis loop for columns lo .. hi, in order, from
\* the loop state st: the columns lo .. mid first, then mid + 1 .. hi from
\* the state that these leave (spans only grows, so the test holds).
RECURSIVE ScanLoop(_, _, _, _)
ScanLoop(smoothedConf, st, lo, hi) ==
  IF lo > hi THEN st
  ELSE IF lo = hi THEN scanColumn(st, lo, smoothedConf[lo])
  ELSE LET mid == (lo + hi) \div 2
           left == ScanLoop(smoothedConf, st, lo, mid)
       IN  IF Len(left.spans) >= Len(st.spans)
           THEN ScanLoop(smoothedConf, left, mid + 1, hi)
           ELSE left

\* The spans list after the loop and the close at the right edge.
detectSpans(smoothedConf, width) ==
  LET st == ScanLoop(smoothedConf, ScanStart, 0, width - 1)
  IN  IF st.inTrace /\ st.start >= 0
      THEN Append(st.spans, [start |-> st.start, end |-> width - 1,
                             length |-> width - st.start])
      ELSE st.spans

\* A faulty variant: among equally long spans the last one wins (>= for >).
RECURSIVE BestSpanFromLast(_, _, _)
BestSpanFromLast(spans, i, bestSpan) ==
  IF i > Len(spans) THEN bestSpan
  ELSE BestSpanFromLast(spans, i + 1,
         IF spans[i].length >= bestSpan.length THEN spans[i] ELSE bestSpan)

RECURSIVE BestSpanFrom(_, _, _)
BestSpanFrom(spans, i, bestSpan) ==
  IF i > Len(spans) THEN bestSpan
  ELSE BestSpanFrom(spans, i + 1,
         IF spans[i].length > bestSpan.length THEN spans[i] ELSE bestSpan)

longestSpan(spans) == BestSpanFrom(spans, 2, spans[1])

trimToSpan(path, bestSpan) ==
  Filled([x \in DOMAIN path |->
     IF x < bestSpan.start \/ x > bestSpan.end THEN -1 ELSE ToInt16(path[x])])

pathSpans(path, img, cutoff) ==
  detectSpans(movingAverage1D(pathConfidence(path, img, cutoff),
                              TRIM_CONFIDENCE_CONFIG.smoothRadius),
              Width(img))

\* A faulty variant: the minimum-valid-columns test is forgotten.
trimWithoutKeepCheck(path, img, cutoff) ==
  IF Length(path) = 0 THEN path
  ELSE LET spans == pathSpans(path, img, cutoff)
       IN  IF Len(spans) = 0 THEN path
           ELSE LET bestSpan == longestSpan(spans)
                IN  IF bestSpan.length < minSpanColumns(Width(img)) THEN path
                    ELSE trimToSpan(path, bestSpan)

trimTracePathByConfidence(path, img, cutoff) ==
  IF Length(path) = 0 THEN path
  ELSE LET spans == pathSpans(path, img, cutoff)
       IN  IF Len(spans) = 0 THEN path
           ELSE LET bestSpan == longestSpan(spans)
                    trimmed == trimToSpan(path, bestSpan)
                IN  IF bestSpan.length < minSpanColumns(Width(img)) THEN path
                    ELSE IF countValidPathPoints(trimmed) < minKeepValidColumns(Width(img))
                         THEN path
                         ELSE trimmed

---------------------------------------------------------------------------
(* Waveform post-processing *)

\* waveform[x] = yPos >= 0 ? 1 - (yPos / height) * 2 : NaN
pathToWaveform(path, width, height) ==
  Filled([x \in 0 .. width - 1 |->
     IF path[x] >= 0 THEN Sub(One, Mul(Frac(path[x], height), Num(2))) ELSE NaN])

\* The last index in lo .. hi whose value is not NaN, -1 when there is none.
RECURSIVE LastPresent(_, _, _)
LastPresent(w, lo, hi) ==
  IF lo > hi THEN -1
  ELSE IF lo = hi THEN (IF IsNaN(w[lo]) THEN -1 ELSE lo)
  ELSE LET mid == (lo + hi) \div 2
           right == LastPresent(w, mid + 1, hi)
       IN  IF right >= 0 THEN right ELSE LastPresent(w, lo, mid)

\* The first index in lo .. hi whose value is not NaN, the length of w when
\* there is none.
RECURSIVE FirstPresent(_, _, _)
FirstPresent(w, lo, hi) ==
  IF lo > hi THEN Length(w)
  ELSE IF lo = hi THEN (IF IsNaN(w[lo]) THEN Length(w) ELSE lo)
  ELSE LET mid == (lo + hi) \div 2
           left == FirstPresent(w, lo, mid)
       IN  IF left < Length(w) THEN left ELSE FirstPresent(w, mid + 1, hi)

\* A faulty variant: a run of exactly interpolationMaxGap values is left
\* missing (< for <=).
interpolateWaveformShortGaps(w) ==
  [j \in DOMAIN w |->
     IF ~IsNaN(w[j]) THEN w[j]
     ELSE LET start == LastPresent(w, 0, j - 1)
              end == FirstPresent(w, j + 1, Length(w) - 1)
              gap == end - start - 1
          IN  IF start >= 0 /\ end < Length(w)
                 /\ gap < WAVEFORM_POSTPROCESSING_CONFIG.interpolationMaxGap
              THEN Add(w[start], Mul(Sub(w[end], w[start]), Frac(j - start, gap + 1)))
              ELSE w[j]]

\* The loop visits each maximal run of NaN once, with start the index before
\* the run and end the index after it, and fills the run when both exist and
\* the run is no longer than interpolationMaxGap.  Here index j of a run
\* finds the same start and end.
interpolateWaveform(w) ==
  [j \in DOMAIN w |->
     IF ~IsNaN(w[j]) THEN w[j]
     ELSE LET start == LastPresent(w, 0, j - 1)
              end == FirstPresent(w, j + 1, Length(w) - 1)
              gap == end - start - 1
          IN  IF start >= 0 /\ end < Length(w)
                 /\ gap <= WAVEFORM_POSTPROCESSING_CONFIG.interpolationMaxGap
              THEN Add(w[start], Mul(Sub(w[end], w[start]), Frac(j - start, gap + 1)))
              ELSE w[j]]

zeroFill(w) == Filled([i \in DOMAIN w |-> IF IsNaN(w[i]) THEN Zero ELSE w[i]])

\* A faulty variant: missing values are not replaced by 0 before centring.
zeroAndCenterWaveformNoFill(w) ==
  LET count == Length(w)
      sum == SumRange(w, 0, count - 1)
      mean == IF count > 0 THEN Div(sum, Num(count)) ELSE Zero
  IN  [i \in DOMAIN w |-> Sub(w[i], mean)]

zeroAndCenterWaveform(w) ==
  LET filled == zeroFill(w)
      count == Length(w)
      sum == SumRange(filled, 0, count - 1)
      mean == IF count > 0 THEN Div(sum, Num(count)) ELSE Zero
  IN  [i \in DOMAIN w |-> Sub(filled[i], mean)]

\* A faulty variant: the baseline is the start value at every index.
anchorSubtractStartOnly(w) ==
  IF Length(w) < 2 THEN w
  ELSE [i \in DOMAIN w |-> Sub(w[i], w[0])]

\* A faulty variant: the baseline is the end value at every index.
anchorSubtractEndOnly(w) ==
  IF Length(w) < 2 THEN w
  ELSE [i \in DOMAIN w |-> Sub(w[i], w[Length(w) - 1])]

anchorWaveformEndpointsToZero(w) ==
  IF Length(w) < 2 THEN w
  ELSE LET lastIndex == Length(w) - 1
           startValue == w[0]
           endValue == w[lastIndex]
       IN  [i \in DOMAIN w |->
             LET t == Frac(i, lastIndex)
                 baseline == Add(startValue, Mul(Sub(endValue, startValue), t))
             IN  Sub(w[i], baseline)]

rotateWaveformInPlace(w, startIndex) ==
  LET length == Length(w)
  IN  IF length < 2 THEN w
      ELSE LET normalizedStart == ((startIndex % length) + length) % length
           IN  IF normalizedStart = 0 THEN w
               ELSE [i \in DOMAIN w |-> w[(normalizedStart + i) % length]]

\* <<bestIndex, bestScore>> of a loop that replaces its best only by a
\* candidate of strictly smaller score, after the candidates of `first` and
\* then those of `second`: the earlier candidate wins a tie.
\* A faulty variant: a candidate of equal score replaces the best (<= for <).
BetterOfLater(first, second) ==
  IF second[2] # PosInfinity /\ (first[2] = PosInfinity \/ Le(second[2], first[2]))
  THEN second ELSE first

BetterOf(first, second) ==
  IF second[2] # PosInfinity /\ (first[2] = PosInfinity \/ Lt(second[2], first[2]))
  THEN second ELSE first

\* The rising-crossing loop over the indices lo .. hi: <<bestIndex, bestScore>>,
\* <<-1, Infinity>> when no pair (w[i], w[i+1]) rises through zero.
RECURSIVE RisingLoop(_, _, _)
RisingLoop(w, lo, hi) ==
  IF lo > hi THEN <<-1, PosInfinity>>
  ELSE IF lo = hi
  THEN LET a == w[lo]
           b == w[lo + 1]
           isRising == Le(a, Zero) /\ Ge(b, Zero)
       IN  IF isRising
           THEN <<IF Le(AbsNum(a), AbsNum(b)) THEN lo ELSE lo + 1,
                  Add(AbsNum(a), AbsNum(b))>>
           ELSE <<-1, PosInfinity>>
  ELSE LET mid == (lo + hi) \div 2
       IN  BetterOf(RisingLoop(w, lo, mid), RisingLoop(w, mid + 1, hi))

\* The closest-to-zero loop over the indices lo .. hi.
RECURSIVE ClosestLoop(_, _, _)
ClosestLoop(w, lo, hi) ==
  IF lo > hi THEN <<-1, PosInfinity>>
  ELSE IF lo = hi THEN <<lo, AbsNum(w[lo])>>
  ELSE LET mid == (lo + hi) \div 2
       IN  BetterOf(ClosestLoop(w, lo, mid), ClosestLoop(w, mid + 1, hi))

alignStartIndex(w) ==
  LET rising == RisingLoop(w, 0, Length(w) - 2)
  IN  IF rising[1] < 0 THEN ClosestLoop(w, 0, Length(w) - 1)[1] ELSE rising[1]

alignWaveformStartToZeroCrossing(w) ==
  IF Length(w) < 4 THEN w
  ELSE LET bestIndex == alignStartIndex(w)
       IN  IF bestIndex > 0 THEN rotateWaveformInPlace(w, bestIndex) ELSE w


---------------------------------------------------------------------------
(* audioEngine.js: waveform preparation and harmonic synthesis *)

\* The largest |values[i]| for i in lo .. hi, 0 for an empty range.
RECURSIVE PeakOf(_, _, _)
PeakOf(values, lo, hi) ==
  IF lo > hi THEN Zero
  ELSE IF lo = hi THEN AbsNum(values[lo])
  ELSE LET mid == (lo + hi) \div 2
           left == PeakOf(values, lo, mid)
           right == PeakOf(values, mid + 1, hi)
       IN  IF Gt(right, left) THEN right ELSE left

\* A faulty variant: a silent waveform is not rejected.
prepareWaveformKeepSilence(sourceWaveform) ==
  IF sourceWaveform = Null \/ Length(sourceWaveform) = 0 THEN Null
  ELSE LET prepared == Filled([i \in DOMAIN sourceWaveform |->
                          IF IsFinite(sourceWaveform[i]) THEN sourceWaveform[i] ELSE Zero])
           peak == PeakOf(prepared, 0, Length(prepared) - 1)
       IN  IF Gt(peak, One)
           THEN [i \in DOMAIN prepared |-> Div(prepared[i], peak)]
           ELSE prepared

\* A faulty variant: the waveform is always scaled to peak 1, also upwards.
prepareWaveformAlwaysScaled(sourceWaveform) ==
  IF sourceWaveform = Null \/ Length(sourceWaveform) = 0 THEN Null
  ELSE LET prepared == Filled([i \in DOMAIN sourceWaveform |->
                          IF IsFinite(sourceWaveform[i]) THEN sourceWaveform[i] ELSE Zero])
           peak == PeakOf(prepared, 0, Length(prepared) - 1)
       IN  IF Lt(peak, Frac(1, 1000000)) THEN Null
           ELSE [i \in DOMAIN prepared |-> Div(prepared[i], peak)]

prepareWaveformForAudio(sourceWaveform) ==
  IF sourceWaveform = Null \/ Length(sourceWaveform) = 0 THEN Null
  ELSE LET prepared == Filled([i \in DOMAIN sourceWaveform |->
                          IF IsFinite(sourceWaveform[i]) THEN sourceWaveform[i] ELSE Zero])
           peak == PeakOf(prepared, 0, Length(prepared) - 1)
       IN  IF Lt(peak, Frac(1, 1000000)) THEN Null
           ELSE IF Gt(peak, One)
                THEN [i \in DOMAIN prepared |-> Div(prepared[i], peak)]
                ELSE prepared

\* Math.sin and Math.cos of the phase 2*pi*k/n, 0 <= k < n, in thousandths,
\* by Bhaskara's rational approximation (error below 0.002; exact at the
\* multiples of a quarter turn): sin(pi*t) ~ 16t(1-t) / (5 - 4t(1-t)) and
\* cos(pi*u) ~ (1 - 4u^2) / (1 + u^2).
sinMilli(k, n) ==
  LET m == IF 2 * k <= n THEN 2 * k ELSE 2 * k - n
      p == m * (n - m)
      v == (16000 * p) \div (5 * n * n - 4 * p)
  IN  IF 2 * k <= n THEN v ELSE -v

cosMilli(k, n) ==
  LET inFirst == 4 * k <= n
      inLast == 4 * k >= 3 * n
      m == IF inFirst THEN 2 * k ELSE IF inLast THEN 2 * k - 2 * n ELSE 2 * k - n
      v == (1000 * (n * n - 4 * m * m)) \div (n * n + m * m)
  IN  IF inFirst \/ inLast THEN v ELSE -v

\* A sample in thousandths.
sampleMilli(v) ==
  IF Abs(v[1]) <= 2000000 THEN (v[1] * 1000) \div v[2]
  ELSE v[1] \div (v[2] \div 1000)

\* <<cosineSum, sineSum>> of one harmonic over the samples lo .. hi, in
\* millionths (the sum is split in halves; the code adds left to right).
RECURSIVE HarmonicSums(_, _, _, _)
HarmonicSums(values, harmonic, lo, hi) ==
  IF lo > hi THEN <<0, 0>>
  ELSE IF lo = hi
  THEN LET n == Length(values)
           k == (harmonic * lo) % n
           sample == sampleMilli(values[lo])
       IN  <<sample * cosMilli(k, n), sample * sinMilli(k, n)>>
  ELSE LET mid == (lo + hi) \div 2
           left == HarmonicSums(values, harmonic, lo, mid)
           right == HarmonicSums(values, harmonic, mid + 1, hi)
       IN  <<left[1] + right[1], left[2] + right[2]>>

\* A faulty variant: the harmonic count is not capped at 128.
buildPeriodicWaveUncapped(context, values) ==
  IF context = "null" \/ values = Null \/ Length(values) < 4 THEN Null
  ELSE LET sampleCount == Length(values)
           harmonicCount == sampleCount \div 2
       IN  IF harmonicCount < 1 THEN Null
           ELSE LET sums == [harmonic \in 1 .. harmonicCount |->
                               HarmonicSums(values, harmonic, 0, sampleCount - 1)]
                    real == [h \in 0 .. harmonicCount |->
                               IF h < 1 THEN Zero
                               ELSE Frac(2 * sums[h][1], sampleCount * 1000000)]
                    imag == [h \in 0 .. harmonicCount |->
                               IF h < 1 THEN Zero
                               ELSE Frac(2 * sums[h][2], sampleCount * 1000000)]
                IN  <<real, imag>>

buildPeriodicWaveFromSamples(context, values) ==
  IF context = "null" \/ values = Null \/ Length(values) < 4 THEN Null
  ELSE LET sampleCount == Length(values)
           harmonicCount == IF sampleCount \div 2 > 128 THEN 128 ELSE sampleCount \div 2
       IN  IF harmonicCount < 1 THEN Null
           ELSE LET sums == [harmonic \in 1 .. harmonicCount |->
                               HarmonicSums(values, harmonic, 0, sampleCount - 1)]
                    real == [h \in 0 .. harmonicCount |->
                               IF h < 1 THEN Zero
                               ELSE Frac(2 * sums[h][1], sampleCount * 1000000)]
                    imag == [h \in 0 .. harmonicCount |->
                               IF h < 1 THEN Zero
                               ELSE Frac(2 * sums[h][2], sampleCount * 1000000)]
                IN  <<real, imag>>


---------------------------------------------------------------------------
(* imageProcessing.js: the custom preprocessing pipeline *)

\* An ImageData is [width, height, data], data being the RGBA bytes over
\* 0 .. 4*width*height - 1.  heap is the sequence of the ImageData objects
\* allocated so far and a reference is an index into it, so that two names
\* for one object share their writes.  A stage takes the heap and the
\* reference it is given and yields <<heap after the call, returned reference>>.
defaultConfig ==
  [flattenKernelRadius |-> 5,
   flattenBias |-> 118,
   contrastLowPercentile |-> 2,
   contrastHighPercentile |-> 98,
   minIsolatedNeighborCount |-> 8,
   erodeMinForegroundCount |-> 6]

ADAPTIVE_THRESHOLD_PERCENTILE == 96

\* Math.round(n / d) for d > 0: the nearest integer, halves towards +Infinity.
RoundDiv(n, d) == (2 * n + d) \div (2 * d)

\* The value a Uint8ClampedArray element holds after storing the integer v.
ToUint8Clamped(v) == clamp(v, 0, 255)

\* The RGBA bytes whose pixel k is gray[k] in R, G and B with alpha 255.
grayBytes(gray) ==
  Filled([i \in 0 .. 4 * Length(gray) - 1 |->
     IF i % 4 = 3 THEN 255 ELSE ToUint8Clamped(gray[i \div 4])])

\* A faulty variant: no copy is made, the result is the object itself.
cloneImageDataShared(h, ref) == <<h, ref>>

cloneImageData(h, ref) == <<Append(h, h[ref]), Len(h) + 1>>

\* The red channel of the pixel (x, y), coordinates clamped to the image.
redAt(data, width, height, x, y) ==
  data[(clamp(y, 0, height - 1) * width + clamp(x, 0, width - 1)) * 4]

\* The sum of the red channel over the (2*radius+1)^2 window around (x, y).
windowSum(data, width, height, x, y, radius) ==
  LET row(ky) == LET cells == [kx \in 0 .. 2 * radius |->
                                 redAt(data, width, height, x + kx - radius, y + ky)]
                 IN  SumInts(cells, 0, 2 * radius)
      rows == [ky \in 0 .. 2 * radius |-> row(ky - radius)]
  IN  SumInts(rows, 0, 2 * radius)

\* The number of pixels of the 3x3 window around (x, y) whose red channel is 255.
foregroundAround(data, width, height, x, y) ==
  Cardinality({k \in (-1 .. 1) \X (-1 .. 1) :
                 redAt(data, width, height, x + k[1], y + k[2]) = 255})

\* A faulty variant: the index counts from the largest value downwards.
getGrayPercentileFromTop(imageData, pct) ==
  LET p == IF pct > 100 THEN 100 ELSE IF pct < 0 THEN 0 ELSE pct
      data == imageData.data
      n == Length(data) \div 4
      values == [j \in 0 .. n - 1 |-> data[4 * j]]
      index == (n - 1) - ((p * (n - 1)) \div 100)
  IN  CHOOSE v \in 0 .. 255 :
        /\ Cardinality({j \in 0 .. n - 1 : values[j] < v}) <= index
        /\ Cardinality({j \in 0 .. n - 1 : values[j] <= v}) > index

\* values.sort() orders the red channel numerically; the element at index is
\* the v with at most index elements below it and more than index not above it.
getGrayPercentile(imageData, pct) ==
  LET p == IF pct > 100 THEN 100 ELSE IF pct < 0 THEN 0 ELSE pct
      data == imageData.data
      n == Length(data) \div 4
      values == [j \in 0 .. n - 1 |-> data[4 * j]]
      index == (p * (n - 1)) \div 100
  IN  CHOOSE v \in 0 .. 255 :
        /\ Cardinality({j \in 0 .. n - 1 : values[j] < v}) <= index
        /\ Cardinality({j \in 0 .. n - 1 : values[j] <= v}) > index

\* A faulty variant: the alpha channel is left as it was.
grayscaleBytesKeepAlpha(data) ==
  [i \in 0 .. Length(data) - 1 |->
     IF i % 4 = 3 THEN data[i]
     ELSE LET k == i \div 4
          IN  RoundDiv(299 * data[4 * k] + 587 * data[4 * k + 1] + 114 * data[4 * k + 2],
                       1000)]

\* The sum 0.299 r + 0.587 g + 0.114 b is taken exactly (in thousandths).
grayscaleBytes(data) ==
  grayBytes([k \in 0 .. Length(data) \div 4 - 1 |->
     RoundDiv(299 * data[4 * k] + 587 * data[4 * k + 1] + 114 * data[4 * k + 2], 1000)])

rgbaToGrayscale(h, ref) ==
  LET cloned == cloneImageData(h, ref)
      output == cloned[2]
      data == cloned[1][output].data
  IN  <<[cloned[1] EXCEPT ![output].data = grayscaleBytes(data)], output>>

denoiseImage(h, ref) ==
  LET width == h[ref].width
      height == h[ref].height
      data == h[ref].data
      cloned == cloneImageData(h, ref)
      output == cloned[2]
      blurred == [k \in 0 .. width * height - 1 |->
                    RoundDiv(windowSum(data, width, height, k % width, k \div width, 1), 9)]
  IN  <<[cloned[1] EXCEPT ![output].data = grayBytes(blurred)], output>>

flattenIllumination(h, ref) ==
  LET width == h[ref].width
      height == h[ref].height
      data == h[ref].data
      cloned == cloneImageData(h, ref)
      output == cloned[2]
      radius == IF defaultConfig.flattenKernelRadius < 1 THEN 1
                ELSE defaultConfig.flattenKernelRadius
      bias == defaultConfig.flattenBias
      flattened ==
        [k \in 0 .. width * height - 1 |->
           LET sourceValue == data[4 * k]
               backgroundValue ==
                 RoundDiv(windowSum(data, width, height, k % width, k \div width, radius),
                          (2 * radius + 1) * (2 * radius + 1))
               darkResponse == IF backgroundValue - sourceValue < 0 THEN 0
                               ELSE backgroundValue - sourceValue
           IN  clamp(darkResponse + bias, 0, 255)]
  IN  <<[cloned[1] EXCEPT ![output].data = grayBytes(flattened)], output>>

\* A faulty variant: a flat image is normalized too; 0 / 0 is stored as 0.
enhanceContrastFlatToo(h, ref) ==
  LET cloned == cloneImageData(h, ref)
      output == cloned[2]
      data == cloned[1][output].data
      minValue == getGrayPercentile(cloned[1][output], defaultConfig.contrastLowPercentile)
      maxValue == getGrayPercentile(cloned[1][output], defaultConfig.contrastHighPercentile)
      range == maxValue - minValue
      normalized == [k \in 0 .. Length(data) \div 4 - 1 |->
                       IF range < 1 THEN 0
                       ELSE RoundDiv((data[4 * k] - minValue) * 255, range)]
  IN  <<[cloned[1] EXCEPT ![output].data = grayBytes(normalized)], output>>

enhanceContrast(h, ref) ==
  LET cloned == cloneImageData(h, ref)
      output == cloned[2]
      data == cloned[1][output].data
      minValue == getGrayPercentile(cloned[1][output], defaultConfig.contrastLowPercentile)
      maxValue == getGrayPercentile(cloned[1][output], defaultConfig.contrastHighPercentile)
      range == maxValue - minValue
      normalized == [k \in 0 .. Length(data) \div 4 - 1 |->
                       RoundDiv((data[4 * k] - minValue) * 255, range)]
  IN  IF range < 1 THEN cloned
      ELSE <<[cloned[1] EXCEPT ![output].data = grayBytes(normalized)], output>>

\* A faulty variant: a pixel is foreground only above the threshold (> for >=).
applyThresholdStrictlyAbove(h, ref) ==
  LET cloned == cloneImageData(h, ref)
      output == cloned[2]
      data == cloned[1][output].data
      threshold == getGrayPercentile(cloned[1][output], ADAPTIVE_THRESHOLD_PERCENTILE)
      binary == [k \in 0 .. Length(data) \div 4 - 1 |->
                   IF data[4 * k] > threshold THEN 255 ELSE 0]
  IN  <<[cloned[1] EXCEPT ![output].data = grayBytes(binary)], output>>

applyThreshold(h, ref) ==
  LET cloned == cloneImageData(h, ref)
      output == cloned[2]
      data == cloned[1][output].data
      threshold == getGrayPercentile(cloned[1][output], ADAPTIVE_THRESHOLD_PERCENTILE)
      binary == [k \in 0 .. Length(data) \div 4 - 1 |->
                   IF data[4 * k] >= threshold THEN 255 ELSE 0]
  IN  <<[cloned[1] EXCEPT ![output].data = grayBytes(binary)], output>>

suppressIsolatedPixels(source, width, height, minNeighborCount) ==
  grayBytes([k \in 0 .. width * height - 1 |->
     IF source[4 * k] # 255 THEN 0
     ELSE IF foregroundAround(source, width, height, k % width, k \div width) - 1
               >= minNeighborCount
          THEN 255 ELSE 0])

dilate3x3(source, width, height) ==
  grayBytes([k \in 0 .. width * height - 1 |->
     IF foregroundAround(source, width, height, k % width, k \div width) > 0
     THEN 255 ELSE 0])

erode3x3(source, width, height) ==
  grayBytes([k \in 0 .. width * height - 1 |->
     IF foregroundAround(source, width, height, k % width, k \div width)
          >= defaultConfig.erodeMinForegroundCount
     THEN 255 ELSE 0])

\* cleanupMask's three inner functions as the loops they are: each call reads
\* the array named source as it is when a pixel is visited and writes the
\* array named target, pixel by pixel in row order.

\* The value one visit writes for pixel k.
stagePixel(kind, source, width, height, k) ==
  LET x == k % width
      y == k \div width
      around == {d \in (-1 .. 1) \X (-1 .. 1) :
                   redAt(source, width, height, x + d[1], y + d[2]) = 255}
  IN  CASE kind = "suppressIsolatedPixels" ->
             IF source[4 * k] # 255 THEN 0
             ELSE IF Cardinality(around \ {<<0, 0>>})
                       >= defaultConfig.minIsolatedNeighborCount
                  THEN 255 ELSE 0
        [] kind = "dilate3x3" -> IF around # {} THEN 255 ELSE 0
        [] kind = "erode3x3" ->
             IF Cardinality(around) >= defaultConfig.erodeMinForegroundCount
             THEN 255 ELSE 0

writePixel(target, k, value) ==
  [target EXCEPT ![4 * k] = value, ![4 * k + 1] = value, ![4 * k + 2] = value,
                 ![4 * k + 3] = 255]

\* The visits of pixels k .. width * height - 1 of the call kind(source, target).
RECURSIVE stageLoop(_, _, _, _, _, _, _)
stageLoop(arrays, kind, source, target, width, height, k) ==
  IF k >= width * height THEN arrays
  ELSE stageLoop([arrays EXCEPT ![target] =
                    writePixel(@, k, stagePixel(kind, arrays[source], width, height, k))],
                 kind, source, target, width, height, k + 1)

\* A faulty variant: dilate3x3 writes the array it reads, and erode3x3 reads
\* that array.
stageCallsDilateInPlace ==
  <<<<"suppressIsolatedPixels", "stageA", "stageB">>,
    <<"dilate3x3", "stageB", "stageB">>,
    <<"erode3x3", "stageB", "stageA">>>>

\* The three calls: the function, its source and its target.
stageCalls ==
  <<<<"suppressIsolatedPixels", "stageA", "stageB">>,
    <<"dilate3x3", "stageB", "stageC">>,
    <<"erode3x3", "stageC", "stageA">>>>

cleanupMask(h, ref) ==
  LET width == h[ref].width
      height == h[ref].height
      data == h[ref].data
      cloned == cloneImageData(h, ref)
      output == cloned[2]
      stageB == suppressIsolatedPixels(data, width, height,
                                       defaultConfig.minIsolatedNeighborCount)
      stageC == dilate3x3(stageB, width, height)
      stageA == erode3x3(stageC, width, height)
  IN  <<[cloned[1] EXCEPT ![output].data = stageA], output>>

---------------------------------------------------------------------------
(* Inputs *)

MaxWidth == 3      \* widest image built from column patterns
MaxLen == 5        \* longest sequence handed to the post-processing chain
MaxSamples == 6    \* longest enumerated sample sequence handed to synthesis
MaxBlock == 14     \* longest run of valid columns in an enumerated trim input
MaxPrepare == 3    \* longest sequence handed to prepareWaveformForAudio
MaxSide == 2       \* widest enumerated image handed to the image processor
MaxGray == 4       \* most pixels of a buffer handed to getGrayPercentile
MaxAlign == 5      \* longest sequence handed to alignWaveformStartToZeroCrossing
MaxMask == 3       \* widest enumerated mask handed to cleanupMask

\* The w x h binary mask whose foreground is the set of pixels <<x, y>>.
MakeMask(w, h, foreground) ==
  [present |-> TRUE, width |-> Num(w), height |-> Num(h),
   data |-> [i \in 0 .. w * h - 1 |->
               IF <<i % w, i \div w>> \in foreground THEN 255 ELSE 0]]

NoImage == [present |-> FALSE, width |-> NaN, height |-> NaN, data |-> <<>>]

\* Column patterns of the enumerated images: the brightness of row y.
ColumnBrightness(p, y) ==
  CASE p = 0 -> 0
    [] p = 1 -> IF y \in 2 .. 3 THEN 255 ELSE 0
    [] p = 2 -> IF y \in 2 .. 4 THEN 255 ELSE 0
    [] p = 3 -> IF y \in 5 .. 8 THEN 255 ELSE 0
    [] p = 4 -> IF y \in 30 .. 32 THEN 255 ELSE 0
    [] p = 5 -> IF y \in {10, 12} THEN 200 ELSE IF y = 11 THEN 255
                ELSE IF y = 13 THEN 199 ELSE 0

PatternImage(cols) ==
  LET w == Len(cols)
  IN  [present |-> TRUE, width |-> Num(w), height |-> Num(40),
       data |-> [i \in 0 .. w * 40 - 1 |-> ColumnBrightness(cols[(i % w) + 1], i \div w)]]

PatternImages ==
  {PatternImage(cols) : cols \in UNION {[1 .. w -> 0 .. 5] : w \in 1 .. MaxWidth}}

\* 100x80, one foreground pixel per column on y = 10 + x/4.
DiagonalLineMask == MakeMask(100, 80, {<<x, 10 + (x \div 4)>> : x \in 0 .. 99})
\* The same line drawn three pixels thick.
ThickDiagonalMask ==
  MakeMask(100, 80, {<<x, 10 + (x \div 4) + d>> : x \in 0 .. 99, d \in -1 .. 1})
\* 100x80, a three-pixel-thick level trace (rows 19..21) in columns 10..89,
\* nothing else.
EdgeGapMask ==
  MakeMask(100, 80, (10 .. 89) \X (19 .. 21))
\* 64x64, the single row y = 32.
FlatLineMask == MakeMask(64, 64, (0 .. 63) \X {32})

ScenarioImages == {DiagonalLineMask, ThickDiagonalMask, EdgeGapMask, FlatLineMask}

Dimensions == {Num(-1), Zero, Num(2), NaN, PosInfinity, NegInfinity}

InvalidImages ==
  {NoImage} \cup
  {[present |-> TRUE, width |-> w, height |-> h, data |-> <<>>] :
     <<w, h>> \in {d \in Dimensions \X Dimensions : d # <<Num(2), Num(2)>>}}

Images == PatternImages \cup ScenarioImages \cup InvalidImages

PostValues == {NaN, Frac(-1, 2), Zero, One}
\* lead valid values, then a run of gap missing ones, then trail valid values.
GapSequence(lead, gap, trail) ==
  [i \in 0 .. lead + gap + trail - 1 |->
     IF i < lead THEN Frac(-1, 2)
     ELSE IF i < lead + gap THEN NaN
     ELSE One]

\* Runs of missing values around interpolationMaxGap, between two values and
\* at either end.
LongGapInputs ==
  {GapSequence(lead, gap, trail) :
     lead \in {0, 1}, gap \in {29, 30, 31}, trail \in {0, 2}}

PostInputs ==
  UNION {[0 .. n - 1 -> PostValues] : n \in 0 .. MaxLen} \cup LongGapInputs

---------------------------------------------------------------------------
(* extractWaveformFromImageData, statement by statement *)

foregroundCutoff == DEFAULT_FOREGROUND_CUTOFF

\* No call has run yet.  The audio context exists once the synth was started
\* after an earlier capture; that capture's waveform has since been replaced.
\* The image processor has not been called.
NoPreprocessing ==
  /\ heap = <<>> /\ refs = <<>> /\ percentile = 0 /\ percentileOut = 0
  /\ buffers = <<>>

\* The trimmer's hysteresis loop has not started.
NoScan ==
  /\ confidence = <<>> /\ scan = ScanStart /\ column = 0

\* No button has been clicked: createSynthAudioEngine and the camera
\* controller have just initialised their variables.
NoControls ==
  /\ synthOscillator = 0 /\ oscillators = <<>> /\ resuming = 0 /\ status = ""
  /\ currentStream = 0 /\ streams = <<>> /\ requesting = 0
  /\ preferredFacing = "user"

Idle ==
  /\ NoPreprocessing /\ NoScan /\ NoControls
  /\ rawTracePath = <<>> /\ tracePath = <<>> /\ amplitude = <<>> /\ waveform = <<>>
  /\ result = "pending" /\ pathY = <<>> /\ samples = <<>>
  /\ audioContext \in {"null", "running"}
  /\ latestAudioWaveform = Null /\ currentPeriodicWave = Null

Init ==
  /\ image \in Images
  /\ pc = "validate"
  /\ Idle

\* A faulty variant: a width of 0 passes (< for <=).
validDimensionsZeroWidth(img) ==
  /\ img.present /\ IsFinite(img.width) /\ IsFinite(img.height)
  /\ ~(Lt(img.width, Zero) \/ Le(img.height, Zero))

validDimensions(img) ==
  /\ img.present /\ IsFinite(img.width) /\ IsFinite(img.height)
  /\ ~(Le(img.width, Zero) \/ Le(img.height, Zero))

Validate ==
  /\ pc = "validate"
  /\ IF validDimensions(image)
     THEN pc' = "findPath" /\ result' = result
     ELSE pc' = "returned" /\ result' = "null"
  /\ UNCHANGED <<image, rawTracePath, tracePath, amplitude, waveform, pathY, samples,
                 audioContext, latestAudioWaveform, currentPeriodicWave, preprocessingVars, controlVars,
                 scanVars>>

FindTracePath ==
  /\ pc = "findPath"
  /\ rawTracePath' = findCenterOfMassTracePath(image, foregroundCutoff)
  /\ pc' = "trimPath"
  /\ UNCHANGED <<image, tracePath, amplitude, waveform, result, pathY, samples,
                 audioContext, latestAudioWaveform, currentPeriodicWave, preprocessingVars, controlVars,
                 scanVars>>

TrimTracePath ==
  /\ pc = "trimPath"
  /\ tracePath' = trimTracePathByConfidence(rawTracePath, image, foregroundCutoff)
  /\ pc' = "fillWaveform"
  /\ UNCHANGED <<image, rawTracePath, amplitude, waveform, result, pathY, samples,
                 audioContext, latestAudioWaveform, currentPeriodicWave, preprocessingVars, controlVars,
                 scanVars>>

FillWaveform ==
  /\ pc = "fillWaveform"
  /\ waveform' = pathToWaveform(tracePath, Width(image), Height(image))
  /\ amplitude' = waveform'
  /\ pc' = "interpolate"
  /\ UNCHANGED <<image, rawTracePath, tracePath, result, pathY, samples,
                 audioContext, latestAudioWaveform, currentPeriodicWave, preprocessingVars, controlVars,
                 scanVars>>

PostStep(from, to, next) ==
  /\ pc = from
  /\ waveform' = next
  /\ pc' = to
  /\ UNCHANGED <<image, rawTracePath, tracePath, amplitude, result, pathY, samples,
                 audioContext, latestAudioWaveform, currentPeriodicWave, preprocessingVars, controlVars,
                 scanVars>>

Interpolate == PostStep("interpolate", "zeroAndCenter", interpolateWaveform(waveform))
ZeroAndCenter == PostStep("zeroAndCenter", "anchor", zeroAndCenterWaveform(waveform))
AnchorEndpoints == PostStep("anchor", "align", anchorWaveformEndpointsToZero(waveform))
AlignStart == PostStep("align", "reanchor", alignWaveformStartToZeroCrossing(waveform))
\* A faulty variant: the second anchoring is left out.
ReanchorSkipped == PostStep("reanchor", "return", waveform)
ReanchorEndpoints == PostStep("reanchor", "return", anchorWaveformEndpointsToZero(waveform))

ReturnWaveform ==
  /\ pc = "return"
  /\ image.present
  /\ result' = "waveform"
  /\ pc' = "returned"
  /\ UNCHANGED <<image, rawTracePath, tracePath, amplitude, waveform, pathY, samples,
                 audioContext, latestAudioWaveform, currentPeriodicWave, preprocessingVars, controlVars,
                 scanVars>>

\* updateWaveform: the prepared waveform is stored; with an audio context its
\* periodic wave is rebuilt and set on the oscillator referenced, if both
\* exist; the status text changes while no oscillator is referenced.
updateWaveform(w) ==
  LET prepared == prepareWaveformForAudio(w)
      rebuilt == IF prepared = Null THEN Null
                 ELSE IF audioContext # "null"
                      THEN buildPeriodicWaveFromSamples(audioContext, prepared)
                      ELSE currentPeriodicWave
  IN  /\ latestAudioWaveform' = prepared
      /\ currentPeriodicWave' = rebuilt
      /\ oscillators' =
           IF prepared # Null /\ audioContext # "null" /\ synthOscillator # 0
              /\ rebuilt # Null
           THEN [oscillators EXCEPT ![synthOscillator].wave = rebuilt]
           ELSE oscillators
      /\ status' = IF synthOscillator # 0 THEN status
                   ELSE IF prepared = Null THEN "Audio: no usable waveform"
                   ELSE "Audio: waveform ready"

\* processCapturedImage hands a non-empty result to synthEngine.updateWaveform.
UpdateWaveform ==
  /\ pc = "returned"
  /\ result = "waveform" /\ Length(waveform) # 0
  /\ updateWaveform(waveform)
  /\ pc' = "updated"
  /\ UNCHANGED <<image, rawTracePath, tracePath, amplitude, waveform, result, pathY,
                 samples, audioContext, preprocessingVars, scanVars,
                 synthOscillator, resuming,
                 currentStream, streams, requesting, preferredFacing>>

Next ==
  \/ Validate
  \/ FindTracePath
  \/ TrimTracePath
  \/ FillWaveform
  \/ Interpolate
  \/ ZeroAndCenter
  \/ AnchorEndpoints
  \/ AlignStart
  \/ ReanchorEndpoints
  \/ ReturnWaveform
  \/ UpdateWaveform

Spec == Init /\ [][Next]_vars

---------------------------------------------------------------------------
(* The post-processing chain on an arbitrary sequence *)

InitPost ==
  /\ NoPreprocessing /\ NoScan /\ NoControls
  /\ image = NoImage
  /\ pc = "interpolate"
  /\ waveform \in PostInputs
  /\ amplitude = waveform
  /\ rawTracePath = <<>> /\ tracePath = <<>> /\ result = "pending"
  /\ pathY = <<>> /\ samples = <<>>
  /\ audioContext = "null" /\ latestAudioWaveform = Null /\ currentPeriodicWave = Null

NextPost ==
  \/ Interpolate
  \/ ZeroAndCenter
  \/ AnchorEndpoints
  \/ AlignStart
  \/ ReanchorEndpoints

SpecPost == InitPost /\ [][NextPost]_vars

---------------------------------------------------------------------------
(* trimTracePathByConfidence on a path and a mask given directly *)

\* A path that is y1 on len1 columns from column a and, after gap columns of
\* no data, y2 on len2 columns; -1 elsewhere.
BlockPath(w, a, len1, gap, len2, y1, y2) ==
  [x \in 0 .. w - 1 |->
     IF x >= a /\ x < a + len1 THEN y1
     ELSE IF x >= a + len1 + gap /\ x < a + len1 + gap + len2 THEN y2
     ELSE -1]

\* A path that is y on dense columns from column a and then on every step-th
\* column up to the right edge, with stray valid columns from column 10.
SparseTailPath(w, stray, a, dense, step, y) ==
  [x \in 0 .. w - 1 |->
     IF x >= 10 /\ x < 10 + stray THEN y
     ELSE IF x >= a /\ x < a + dense THEN y
     ELSE IF x >= a + dense /\ (x - a - dense) % step = step - 1 THEN y
     ELSE -1]

\* The mask whose foreground is the path drawn 2*t + 1 pixels thick.
PathMask(path, h, t) ==
  LET w == Length(path)
  IN  [present |-> TRUE, width |-> Num(w), height |-> Num(h),
       data |-> [i \in 0 .. w * h - 1 |->
                   IF path[i % w] >= 0 /\ Abs((i \div w) - path[i % w]) <= t
                   THEN 255 ELSE 0]]

BlockTrimInputs ==
  {<<BlockPath(24, a, len1, gap, len2, 10, y2),
     PathMask(BlockPath(24, a, len1, gap, len2, 10, y2), 24, t)>> :
     a \in {0, 3, 8}, len1 \in 4 .. MaxBlock, gap \in {2, 9}, len2 \in {0, 5},
     y2 \in {10, 16}, t \in {0, 1}}

SparseTrimInputs ==
  {<<SparseTailPath(150, stray, a, dense, step, 10),
     MakeMask(150, 24, (0 .. 149) \X (9 .. 11))>> :
     stray \in {0, 3}, a \in {126, 128, 130}, dense \in {6, 8}, step \in {3, 4}}

\* 100 columns, the path level at row 40 in columns 20..79: the mask's
\* foreground is the path itself, or the path drawn three pixels thick.
SpanPath == BlockPath(100, 20, 60, 0, 0, 40, 40)
ThinSpanInput == <<SpanPath, PathMask(SpanPath, 80, 0)>>
ThickSpanInput == <<SpanPath, PathMask(SpanPath, 80, 1)>>

\* 60 columns, two level blocks of valid columns 20 columns apart, the first
\* from column 0; the mask's foreground is the path drawn three pixels thick.
TwoSpanInputs ==
  {<<BlockPath(60, 0, len1, 20, len2, 10, 10),
     PathMask(BlockPath(60, 0, len1, 20, len2, 10, 10), 24, 1)>> :
     len1 \in {14, 20, 26}, len2 \in {14, 20}}

TrimInputs ==
  BlockTrimInputs \cup SparseTrimInputs \cup TwoSpanInputs
    \cup {ThinSpanInput, ThickSpanInput}

InitTrim ==
  /\ NoPreprocessing /\ NoScan /\ NoControls
  /\ \E input \in TrimInputs : pathY = input[1] /\ image = input[2]
  /\ pc = "trimCall"
  /\ rawTracePath = <<>> /\ tracePath = <<>> /\ amplitude = <<>> /\ waveform = <<>>
  /\ result = "pending" /\ samples = <<>>
  /\ audioContext = "null" /\ latestAudioWaveform = Null /\ currentPeriodicWave = Null

TrimCall ==
  /\ pc = "trimCall"
  /\ tracePath' = trimTracePathByConfidence(pathY, image, foregroundCutoff)
  /\ pc' = "trimReturned"
  /\ UNCHANGED <<image, rawTracePath, amplitude, waveform, result, pathY, samples,
                 audioContext, latestAudioWaveform, currentPeriodicWave, preprocessingVars, controlVars,
                 scanVars>>

NextTrim == TrimCall

SpecTrim == InitTrim /\ [][NextTrim]_vars

---------------------------------------------------------------------------
(* buildPeriodicWaveFromSamples on samples given directly *)

SynthValues == {Frac(-1, 2), Zero, One}
LongLengths == {255, 256, 257, 258, 300}
LongSamples(n) == [i \in 0 .. n - 1 |-> IF i % 3 = 0 THEN One ELSE Frac(-1, 2)]

SynthInputs ==
  {Null} \cup UNION {[0 .. n - 1 -> SynthValues] : n \in 0 .. MaxSamples}
         \cup {LongSamples(n) : n \in LongLengths}

InitSynth ==
  /\ NoPreprocessing /\ NoScan /\ NoControls
  /\ samples \in SynthInputs
  /\ audioContext \in {"null", "running"}
  /\ pc = "buildCall"
  /\ image = NoImage
  /\ rawTracePath = <<>> /\ tracePath = <<>> /\ amplitude = <<>> /\ waveform = <<>>
  /\ result = "pending" /\ pathY = <<>>
  /\ latestAudioWaveform = Null /\ currentPeriodicWave = Null

BuildCall ==
  /\ pc = "buildCall"
  /\ currentPeriodicWave' = buildPeriodicWaveFromSamples(audioContext, samples)
  /\ pc' = "buildReturned"
  /\ UNCHANGED <<image, rawTracePath, tracePath, amplitude, waveform, result, pathY,
                 samples, audioContext, latestAudioWaveform, preprocessingVars, controlVars,
                 scanVars>>

NextSynth == BuildCall

SpecSynth == InitSynth /\ [][NextSynth]_vars

---------------------------------------------------------------------------
(* alignWaveformStartToZeroCrossing on a sequence given directly *)

AlignValues == {Num(-1), Frac(-1, 2), Zero, Frac(1, 2), One}
AlignInputs == UNION {[0 .. n - 1 -> AlignValues] : n \in 0 .. MaxAlign}

InitAlign ==
  /\ NoPreprocessing /\ NoScan /\ NoControls
  /\ image = NoImage
  /\ pc = "align"
  /\ waveform \in AlignInputs
  /\ amplitude = waveform
  /\ rawTracePath = <<>> /\ tracePath = <<>> /\ result = "pending"
  /\ pathY = <<>> /\ samples = <<>>
  /\ audioContext = "null" /\ latestAudioWaveform = Null /\ currentPeriodicWave = Null

NextAlign == AlignStart

SpecAlign == InitAlign /\ [][NextAlign]_vars

---------------------------------------------------------------------------
(* prepareWaveformForAudio on a waveform given directly *)

PrepareValues ==
  {NaN, PosInfinity, Zero, Frac(1, 2000000), Frac(-1, 2), One, Frac(-3, 2), Num(2)}

PrepareInputs ==
  {Null} \cup UNION {[0 .. n - 1 -> PrepareValues] : n \in 0 .. MaxPrepare}

InitPrepare ==
  /\ NoPreprocessing /\ NoScan /\ NoControls
  /\ samples \in PrepareInputs
  /\ pc = "prepareCall"
  /\ image = NoImage
  /\ rawTracePath = <<>> /\ tracePath = <<>> /\ amplitude = <<>> /\ waveform = <<>>
  /\ result = "pending" /\ pathY = <<>>
  /\ audioContext = "null" /\ latestAudioWaveform = Null /\ currentPeriodicWave = Null

PrepareCall ==
  /\ pc = "prepareCall"
  /\ latestAudioWaveform' = prepareWaveformForAudio(samples)
  /\ pc' = "prepareReturned"
  /\ UNCHANGED <<image, rawTracePath, tracePath, amplitude, waveform, result, pathY,
                 samples, audioContext, currentPeriodicWave, preprocessingVars, controlVars,
                 scanVars>>

NextPrepare == PrepareCall

SpecPrepare == InitPrepare /\ [][NextPrepare]_vars

---------------------------------------------------------------------------
(* preprocessImage, stage by stage *)

\* The ImageData whose pixel k has the RGBA bytes pixels[k].
MakeImageData(width, height, pixels) ==
  [width |-> width, height |-> height,
   data |-> [i \in 0 .. 4 * width * height - 1 |-> pixels[i \div 4][(i % 4) + 1]]]

Palette == {<<0, 0, 0, 255>>, <<255, 255, 255, 255>>, <<200, 100, 50, 128>>}

PaletteImages ==
  UNION {{MakeImageData(w, h, pixels) : pixels \in [0 .. w * h - 1 -> Palette]} :
           <<w, h>> \in (1 .. MaxSide) \X (1 .. 2)}

\* Uniformly lit images: every pixel <<v, v, v, 255>>.
UniformLevels == {0, 1, 59, 117, 118, 119, 200, 254, 255}
UniformImages ==
  {MakeImageData(d[1], d[2], [k \in 0 .. d[1] * d[2] - 1 |-> <<v, v, v, 255>>]) :
     d \in {<<1, 1>>, <<3, 2>>, <<4, 13>>}, v \in UniformLevels}

PreprocessInputs == PaletteImages \cup UniformImages

---------------------------------------------------------------------------
(* The play button: toggleSynth interleaved with the awaited resume() *)

\* Oscillators created plus startSynth calls pending, at most.
MaxOscillators == 3

\* Waveforms handed to updateWaveform between clicks: silence, a non-silent
\* waveform of 2 samples, and two non-silent waveforms of 4 samples.
EngineWaveforms ==
  { [i \in 0 .. 3 |-> Zero],
    [i \in 0 .. 1 |-> IF i = 0 THEN Frac(1, 2) ELSE Frac(-1, 2)],
    [i \in 0 .. 3 |-> IF i < 2 THEN One ELSE Frac(-1, 1)],
    [i \in 0 .. 3 |-> Frac(i - 1, 2)] }

InitEngine ==
  /\ NoPreprocessing /\ NoScan /\ NoControls
  /\ pc = "engine"
  /\ image = NoImage
  /\ rawTracePath = <<>> /\ tracePath = <<>> /\ amplitude = <<>> /\ waveform = <<>>
  /\ result = "pending" /\ pathY = <<>> /\ samples = <<>>
  /\ audioContext = "null" /\ latestAudioWaveform = Null /\ currentPeriodicWave = Null

\* A faulty variant: the oscillator is created, connected and referenced,
\* but start() is never called.
createAndStartNeverStarted(context) ==
  LET periodic == IF currentPeriodicWave = Null
                  THEN buildPeriodicWaveFromSamples(context, latestAudioWaveform)
                  ELSE currentPeriodicWave
  IN  /\ currentPeriodicWave' = periodic
      /\ oscillators' = Append(oscillators, [state |-> "created", wave |-> periodic])
      /\ synthOscillator' = Len(oscillators) + 1
      /\ status' = "Audio: playing"

\* startSynth from the statement after the await: the periodic wave is built
\* if there is none, the oscillator is created, given the wave if there is
\* one, referenced by synthOscillator and started.
createAndStart(context) ==
  LET periodic == IF currentPeriodicWave = Null
                  THEN buildPeriodicWaveFromSamples(context, latestAudioWaveform)
                  ELSE currentPeriodicWave
  IN  /\ currentPeriodicWave' = periodic
      /\ oscillators' = Append(oscillators, [state |-> "started", wave |-> periodic])
      /\ synthOscillator' = Len(oscillators) + 1
      /\ status' = "Audio: playing"

\* updateWaveform is called with a newly extracted waveform.
UpdateCall ==
  /\ pc = "engine"
  /\ \E w \in EngineWaveforms : updateWaveform(w)
  /\ UNCHANGED <<image, pc, rawTracePath, tracePath, amplitude, waveform, result, pathY,
                 samples, audioContext, preprocessingVars, scanVars,
                 synthOscillator, resuming,
                 currentStream, streams, requesting, preferredFacing>>

\* A click while an oscillator is referenced: toggleSynth calls stopSynth.
StopClick ==
  /\ pc = "engine"
  /\ synthOscillator # 0
  /\ audioContext # "null"
  /\ oscillators' = [oscillators EXCEPT ![synthOscillator].state = "stopped"]
  /\ synthOscillator' = 0
  /\ status' = "Audio: idle"
  /\ UNCHANGED <<image, pc, rawTracePath, tracePath, amplitude, waveform, result, pathY,
                 samples, audioContext, latestAudioWaveform, currentPeriodicWave,
                 preprocessingVars, scanVars, resuming,
                 currentStream, streams, requesting, preferredFacing>>

\* A click while no oscillator is referenced: toggleSynth calls startSynth,
\* which runs up to its await, or to its end if the context is not suspended.
\* A context created by ensureAudioEngine is suspended or running, as the
\* browser decides.
StartClick ==
  /\ pc = "engine"
  /\ synthOscillator = 0
  /\ Len(oscillators) + resuming < MaxOscillators
  /\ IF latestAudioWaveform = Null
     THEN /\ status' = "Audio: capture a waveform first"
          /\ UNCHANGED <<audioContext, currentPeriodicWave, oscillators,
                         synthOscillator, resuming>>
     ELSE \E state \in IF audioContext = "null" THEN {"suspended", "running"}
                       ELSE {audioContext} :
            /\ audioContext' = state
            /\ IF state = "suspended"
               THEN /\ resuming' = resuming + 1
                    /\ UNCHANGED <<currentPeriodicWave, oscillators, synthOscillator,
                                   status>>
               ELSE /\ createAndStart(state)
                    /\ UNCHANGED resuming
  /\ UNCHANGED <<image, pc, rawTracePath, tracePath, amplitude, waveform, result, pathY,
                 samples, latestAudioWaveform, preprocessingVars, scanVars,
                 currentStream, streams, requesting, preferredFacing>>

\* audioContext.resume() resolves: the context is running and one pending
\* startSynth continues after its await.
Resumed ==
  /\ pc = "engine"
  /\ resuming > 0
  /\ audioContext' = "running"
  /\ resuming' = resuming - 1
  /\ createAndStart("running")
  /\ UNCHANGED <<image, pc, rawTracePath, tracePath, amplitude, waveform, result, pathY,
                 samples, latestAudioWaveform, preprocessingVars, scanVars,
                 currentStream, streams, requesting, preferredFacing>>

\* audioContext.resume() rejects: the click handler's catch reports it.
ResumeRejected ==
  /\ pc = "engine"
  /\ resuming > 0
  /\ audioContext = "suspended"
  /\ resuming' = resuming - 1
  /\ status' = "Audio: failed to start"
  /\ UNCHANGED <<image, pc, rawTracePath, tracePath, amplitude, waveform, result, pathY,
                 samples, audioContext, latestAudioWaveform, currentPeriodicWave,
                 preprocessingVars, scanVars, synthOscillator, oscillators,
                 currentStream, streams, requesting, preferredFacing>>

\* A stopped oscillator has played out: its onended handler runs.
Ended ==
  /\ pc = "engine"
  /\ \E i \in 1 .. Len(oscillators) :
       /\ oscillators[i].state = "stopped"
       /\ oscillators' = [oscillators EXCEPT ![i].state = "ended"]
  /\ status' = IF synthOscillator # 0 THEN status ELSE "Audio: idle"
  /\ UNCHANGED <<image, pc, rawTracePath, tracePath, amplitude, waveform, result, pathY,
                 samples, audioContext, latestAudioWaveform, currentPeriodicWave,
                 preprocessingVars, scanVars, synthOscillator, resuming,
                 currentStream, streams, requesting, preferredFacing>>

NextEngine ==
  \/ UpdateCall
  \/ StopClick
  \/ StartClick
  \/ Resumed
  \/ ResumeRejected
  \/ Ended

SpecEngine == InitEngine /\ [][NextEngine]_vars

---------------------------------------------------------------------------
(* The camera buttons: clicks interleaved with the awaited getUserMedia *)

\* Streams obtained plus startCamera calls pending, at most.
MaxStreams == 4

InitCamera ==
  /\ NoPreprocessing /\ NoScan /\ NoControls
  /\ pc = "camera"
  /\ image = NoImage
  /\ rawTracePath = <<>> /\ tracePath = <<>> /\ amplitude = <<>> /\ waveform = <<>>
  /\ result = "pending" /\ pathY = <<>> /\ samples = <<>>
  /\ audioContext = "null" /\ latestAudioWaveform = Null /\ currentPeriodicWave = Null

\* stopCamera: the tracks of the stream referenced are stopped and the
\* reference is cleared.
stopCamera(all) ==
  IF currentStream # 0 THEN [all EXCEPT ![currentStream] = "stopped"] ELSE all

\* A click on the start button while no stream is referenced: startCamera
\* runs up to its await of getUserMedia.
StartCameraClick ==
  /\ pc = "camera"
  /\ currentStream = 0
  /\ Len(streams) + requesting < MaxStreams
  /\ requesting' = requesting + 1
  /\ UNCHANGED <<image, pc, rawTracePath, tracePath, amplitude, waveform, result, pathY,
                 samples, audioContext, latestAudioWaveform, currentPeriodicWave,
                 preprocessingVars, scanVars,
                 synthOscillator, oscillators, resuming, status,
                 currentStream, streams, preferredFacing>>

\* A click on the start button while a stream is referenced: stopCamera.
StopCameraClick ==
  /\ pc = "camera"
  /\ currentStream # 0
  /\ streams' = stopCamera(streams)
  /\ currentStream' = 0
  /\ UNCHANGED <<image, pc, rawTracePath, tracePath, amplitude, waveform, result, pathY,
                 samples, audioContext, latestAudioWaveform, currentPeriodicWave,
                 preprocessingVars, scanVars,
                 synthOscillator, oscillators, resuming, status,
                 requesting, preferredFacing>>

\* A click on the facing toggle: the preferred facing flips, and a stream
\* referenced is stopped and startCamera runs up to its await.
FacingClick ==
  /\ pc = "camera"
  /\ currentStream # 0 => Len(streams) + requesting < MaxStreams
  /\ preferredFacing' = IF preferredFacing = "user" THEN "environment" ELSE "user"
  /\ streams' = stopCamera(streams)
  /\ currentStream' = 0
  /\ requesting' = IF currentStream # 0 THEN requesting + 1 ELSE requesting
  /\ UNCHANGED <<image, pc, rawTracePath, tracePath, amplitude, waveform, result, pathY,
                 samples, audioContext, latestAudioWaveform, currentPeriodicWave,
                 preprocessingVars, scanVars,
                 synthOscillator, oscillators, resuming, status>>

\* getUserMedia resolves with a new stream: one pending startCamera continues
\* after its await and stores the stream in currentStream.
StreamObtained ==
  /\ pc = "camera"
  /\ requesting > 0
  /\ requesting' = requesting - 1
  /\ streams' = Append(streams, "live")
  /\ currentStream' = Len(streams) + 1
  /\ UNCHANGED <<image, pc, rawTracePath, tracePath, amplitude, waveform, result, pathY,
                 samples, audioContext, latestAudioWaveform, currentPeriodicWave,
                 preprocessingVars, scanVars,
                 synthOscillator, oscillators, resuming, status,
                 preferredFacing>>

\* All three getUserMedia attempts reject: startCamera logs the error.
StreamRefused ==
  /\ pc = "camera"
  /\ requesting > 0
  /\ requesting' = requesting - 1
  /\ UNCHANGED <<image, pc, rawTracePath, tracePath, amplitude, waveform, result, pathY,
                 samples, audioContext, latestAudioWaveform, currentPeriodicWave,
                 preprocessingVars, scanVars,
                 synthOscillator, oscillators, resuming, status,
                 currentStream, streams, preferredFacing>>

NextCamera ==
  \/ StartCameraClick
  \/ StopCameraClick
  \/ FacingClick
  \/ StreamObtained
  \/ StreamRefused

SpecCamera == InitCamera /\ [][NextCamera]_vars

\* Everything outside the image processor is idle.
NoExtraction ==
  /\ image = NoImage
  /\ rawTracePath = <<>> /\ tracePath = <<>> /\ amplitude = <<>> /\ waveform = <<>>
  /\ pathY = <<>> /\ samples = <<>>
  /\ audioContext = "null" /\ latestAudioWaveform = Null /\ currentPeriodicWave = Null
  /\ NoScan /\ NoControls

extractionVars ==
  <<image, rawTracePath, tracePath, amplitude, waveform, pathY, samples,
    audioContext, latestAudioWaveform, currentPeriodicWave, scanVars, controlVars>>

\* refs[1] is the object preprocessImage was given, 0 for a missing one.
InitPreprocess ==
  /\ \/ \E input \in PreprocessInputs : heap = <<input>> /\ refs = <<1>>
     \/ heap = <<>> /\ refs = <<0>>
  /\ pc = "preprocess"
  /\ result = "pending"
  /\ percentile = 0 /\ percentileOut = 0 /\ buffers = <<>>
  /\ NoExtraction

EnterPreprocess ==
  /\ pc = "preprocess"
  /\ IF refs[1] = 0
     THEN pc' = "preprocessed" /\ result' = "null"
     ELSE pc' = "grayscale" /\ result' = result
  /\ UNCHANGED <<extractionVars, preprocessingVars>>

\* One stage: it is handed the object the previous stage returned.
Stage(from, to, returned) ==
  /\ pc = from
  /\ heap' = returned[1]
  /\ refs' = Append(refs, returned[2])
  /\ pc' = to
  /\ UNCHANGED <<extractionVars, result, percentile, percentileOut, buffers>>

Grayscale == Stage("grayscale", "denoise", rgbaToGrayscale(heap, refs[Len(refs)]))
Denoise == Stage("denoise", "flatten", denoiseImage(heap, refs[Len(refs)]))
Flatten == Stage("flatten", "contrast", flattenIllumination(heap, refs[Len(refs)]))
Contrast == Stage("contrast", "threshold", enhanceContrast(heap, refs[Len(refs)]))
Threshold == Stage("threshold", "cleanup", applyThreshold(heap, refs[Len(refs)]))
Cleanup == Stage("cleanup", "returnCleaned", cleanupMask(heap, refs[Len(refs)]))

ReturnCleaned ==
  /\ pc = "returnCleaned"
  /\ result' = "image"
  /\ pc' = "preprocessed"
  /\ UNCHANGED <<extractionVars, preprocessingVars>>

NextPreprocess ==
  \/ EnterPreprocess
  \/ Grayscale
  \/ Denoise
  \/ Flatten
  \/ Contrast
  \/ Threshold
  \/ Cleanup
  \/ ReturnCleaned

SpecPreprocess == InitPreprocess /\ [][NextPreprocess]_vars

---------------------------------------------------------------------------
(* rgbaToGrayscale on a buffer given directly, applied twice *)

Colours == {100, 255} \X {0, 255} \X {0, 255} \X {0, 255}

GrayscaleInputs ==
  UNION {{MakeImageData(w, 1, pixels) : pixels \in [0 .. w - 1 -> Colours]} :
           w \in 1 .. MaxSide}

InitGrayscale ==
  /\ \E input \in GrayscaleInputs : heap = <<input>>
  /\ refs = <<1>>
  /\ pc = "grayscaleCall"
  /\ result = "pending"
  /\ percentile = 0 /\ percentileOut = 0 /\ buffers = <<>>
  /\ NoExtraction

GrayscaleCall ==
  Stage("grayscaleCall", "grayscaleAgain", rgbaToGrayscale(heap, refs[Len(refs)]))
GrayscaleAgain ==
  Stage("grayscaleAgain", "grayscaleDone", rgbaToGrayscale(heap, refs[Len(refs)]))

NextGrayscale ==
  \/ GrayscaleCall
  \/ GrayscaleAgain

SpecGrayscale == InitGrayscale /\ [][NextGrayscale]_vars

---------------------------------------------------------------------------
(* getGrayPercentile on a buffer given directly *)

GrayLevels == {0, 7, 118, 255}

GrayBuffers ==
  UNION {{MakeImageData(n, 1, [k \in 0 .. n - 1 |-> <<g[k], g[k], g[k], 255>>]) :
            g \in [0 .. n - 1 -> GrayLevels]} : n \in 1 .. MaxGray}

Percentiles == {-5, 0, 2, 50, 96, 98, 100, 130}

InitPercentile ==
  /\ \E input \in GrayBuffers : heap = <<input>>
  /\ refs = <<1>>
  /\ percentile \in Percentiles
  /\ percentileOut = 0 /\ buffers = <<>>
  /\ pc = "percentileCall"
  /\ result = "pending"
  /\ NoExtraction

\* The call reads imageData.data into a new array and sorts that array: no
\* ImageData object is written.
PercentileCall ==
  /\ pc = "percentileCall"
  /\ percentileOut' = getGrayPercentile(heap[refs[1]], percentile)
  /\ heap' = heap
  /\ pc' = "percentileReturned"
  /\ UNCHANGED <<extractionVars, result, refs, percentile, buffers>>

NextPercentile == PercentileCall

SpecPercentile == InitPercentile /\ [][NextPercentile]_vars

---------------------------------------------------------------------------
(* cleanupMask on a mask given directly, call by call *)

\* The binary masks of 1 or 3 rows, as applyThreshold writes them.
CleanupInputs ==
  UNION {{MakeImageData(w, h, [k \in 0 .. w * h - 1 |->
                                 <<bits[k], bits[k], bits[k], 255>>]) :
            bits \in [0 .. w * h - 1 -> {0, 255}]} :
           <<w, h>> \in (1 .. MaxMask) \X {1, 3}}

InitCleanup ==
  /\ \E input \in CleanupInputs : heap = <<input>>
  /\ refs = <<1>>
  /\ pc = "cleanupCall"
  /\ result = "pending"
  /\ percentile = 0 /\ percentileOut = 0 /\ buffers = <<>>
  /\ NoExtraction

\* output = cloneImageData(imageData); stageA is a copy of the input's bytes,
\* stageB and stageC are new arrays of that length, filled with 0.
AllocateStages ==
  /\ pc = "cleanupCall"
  /\ LET cloned == cloneImageData(heap, refs[1])
         data == heap[refs[1]].data
     IN  /\ heap' = cloned[1]
         /\ refs' = Append(refs, cloned[2])
         /\ buffers' = [stageA |-> data,
                        stageB |-> [i \in DOMAIN data |-> 0],
                        stageC |-> [i \in DOMAIN data |-> 0]]
  /\ pc' = "stageCall1"
  /\ UNCHANGED <<extractionVars, result, percentile, percentileOut>>

\* The n-th of the three calls.
StageCall(n, from, to) ==
  /\ pc = from
  /\ buffers' = stageLoop(buffers, stageCalls[n][1], stageCalls[n][2], stageCalls[n][3],
                          heap[refs[1]].width, heap[refs[1]].height, 0)
  /\ pc' = to
  /\ UNCHANGED <<extractionVars, result, heap, refs, percentile, percentileOut>>

SuppressCall == StageCall(1, "stageCall1", "stageCall2")
DilateCall == StageCall(2, "stageCall2", "stageCall3")
ErodeCall == StageCall(3, "stageCall3", "copyOut")

\* out.set(stageA); return output.
CopyOut ==
  /\ pc = "copyOut"
  /\ heap' = [heap EXCEPT ![refs[2]].data = buffers.stageA]
  /\ result' = "image"
  /\ pc' = "cleanupReturned"
  /\ UNCHANGED <<extractionVars, refs, percentile, percentileOut, buffers>>

NextCleanup ==
  \/ AllocateStages
  \/ SuppressCall
  \/ DilateCall
  \/ ErodeCall
  \/ CopyOut

SpecCleanup == InitCleanup /\ [][NextCleanup]_vars

---------------------------------------------------------------------------
(* findCenterOfMassTracePath on a mask given directly *)

\* Column patterns of the tracker's masks, 60 rows high: the brightness of
\* row y.  Patterns 1, 2 and 8 hold two separate strokes, 5 and 6 hold
\* pixels just below the cutoff, 7 has its centroid between two rows.
TrackBrightness(p, y) ==
  CASE p = 0 -> 0
    [] p = 1 -> IF y \in (2 .. 4) \cup (20 .. 22) THEN 255 ELSE 0
    [] p = 2 -> IF y \in (0 .. 2) \cup (33 .. 35) THEN 255 ELSE 0
    [] p = 3 -> IF y \in 45 .. 47 THEN 255 ELSE 0
    [] p = 4 -> IF y \in 57 .. 59 THEN 255 ELSE 0
    [] p = 5 -> IF y \in 28 .. 29 THEN 255 ELSE IF y = 30 THEN 199 ELSE 0
    [] p = 6 -> IF y \in {10, 12} THEN 200 ELSE IF y = 11 THEN 255
                ELSE IF y = 13 THEN 199 ELSE 0
    [] p = 7 -> IF y \in 20 .. 23 THEN 255 ELSE 0
    [] p = 8 -> IF y \in (22 .. 24) \cup {42} THEN 255 ELSE 0

TrackImage(cols) ==
  LET w == Len(cols)
  IN  [present |-> TRUE, width |-> Num(w), height |-> Num(60),
       data |-> [i \in 0 .. w * 60 - 1 |-> TrackBrightness(cols[(i % w) + 1], i \div w)]]

TrackImages ==
  {TrackImage(cols) : cols \in UNION {[1 .. w -> 0 .. 8] : w \in 1 .. MaxWidth}}

InitTrack ==
  /\ NoPreprocessing /\ NoScan /\ NoControls
  /\ image \in TrackImages
  /\ pc = "trackColumns"
  /\ pathY = <<>> /\ rawTracePath = <<>> /\ tracePath = <<>>
  /\ amplitude = <<>> /\ waveform = <<>>
  /\ result = "pending" /\ samples = <<>>
  /\ audioContext = "null" /\ latestAudioWaveform = Null /\ currentPeriodicWave = Null

\* The left-to-right loop over the columns; pathY is the function's local
\* Float32Array.
TrackPass ==
  /\ pc = "trackColumns"
  /\ pathY' = rawCenterOfMassPath(image, foregroundCutoff)
  /\ pc' = "medianFilter"
  /\ UNCHANGED <<image, rawTracePath, tracePath, amplitude, waveform, result, samples,
                 audioContext, latestAudioWaveform, currentPeriodicWave, preprocessingVars, controlVars,
                 scanVars>>

\* The median filter and the quantization to Int16, then the return.
FilterPath ==
  /\ pc = "medianFilter"
  /\ rawTracePath' = quantizePath(medianFilterFinite1D(pathY,
                                    CENTER_OF_MASS_CONFIG.medianRadius))
  /\ pc' = "pathReturned"
  /\ UNCHANGED <<image, tracePath, amplitude, waveform, result, pathY, samples,
                 audioContext, latestAudioWaveform, currentPeriodicWave, preprocessingVars, controlVars,
                 scanVars>>

NextTrack ==
  \/ TrackPass
  \/ FilterPath

SpecTrack == InitTrack /\ [][NextTrack]_vars

---------------------------------------------------------------------------
(* trimTracePathByConfidence: the hysteresis loop, column by column *)

InitScan ==
  /\ NoPreprocessing /\ NoScan /\ NoControls
  /\ \E input \in TrimInputs : pathY = input[1] /\ image = input[2]
  /\ pc = "smoothConfidence"
  /\ rawTracePath = <<>> /\ tracePath = <<>> /\ amplitude = <<>> /\ waveform = <<>>
  /\ result = "pending" /\ samples = <<>>
  /\ audioContext = "null" /\ latestAudioWaveform = Null /\ currentPeriodicWave = Null

\* The confidence loop and its smoothing; the loop's variables are
\* initialised.
SmoothConfidence ==
  /\ pc = "smoothConfidence"
  /\ confidence' = movingAverage1D(pathConfidence(pathY, image, foregroundCutoff),
                                   TRIM_CONFIDENCE_CONFIG.smoothRadius)
  /\ scan' = ScanStart
  /\ column' = 0
  /\ pc' = "scan"
  /\ UNCHANGED <<image, rawTracePath, tracePath, amplitude, waveform, result, pathY,
                 samples, audioContext, latestAudioWaveform, currentPeriodicWave,
                 preprocessingVars, controlVars>>

\* One iteration of the hysteresis loop.
ScanColumn ==
  /\ pc = "scan"
  /\ column < Width(image)
  /\ scan' = scanColumn(scan, column, confidence[column])
  /\ column' = column + 1
  /\ UNCHANGED <<image, pc, rawTracePath, tracePath, amplitude, waveform, result, pathY,
                 samples, audioContext, latestAudioWaveform, currentPeriodicWave,
                 preprocessingVars, controlVars, confidence>>

\* The loop is over: a span still open is closed at the right edge.
CloseAtEdge ==
  /\ pc = "scan"
  /\ column >= Width(image)
  /\ scan' = IF scan.inTrace /\ scan.start >= 0
             THEN [scan EXCEPT !.spans =
                     Append(scan.spans,
                            [start |-> scan.start, end |-> Width(image) - 1,
                             length |-> Width(image) - scan.start])]
             ELSE scan
  /\ pc' = "selectSpan"
  /\ UNCHANGED <<image, rawTracePath, tracePath, amplitude, waveform, result, pathY,
                 samples, audioContext, latestAudioWaveform, currentPeriodicWave,
                 preprocessingVars, controlVars, confidence, column>>

\* The longest span is selected and the path trimmed to it, or returned as
\* it is.
SelectSpan ==
  /\ pc = "selectSpan"
  /\ tracePath' = trimTracePathByConfidence(pathY, image, foregroundCutoff)
  /\ pc' = "trimReturned"
  /\ UNCHANGED <<image, rawTracePath, amplitude, waveform, result, pathY, samples,
                 audioContext, latestAudioWaveform, currentPeriodicWave,
                 preprocessingVars, controlVars, scanVars>>

NextScan ==
  \/ SmoothConfidence
  \/ ScanColumn
  \/ CloseAtEdge
  \/ SelectSpan

SpecScan == InitScan /\ [][NextScan]_vars

---------------------------------------------------------------------------
(* Properties *)

Returned == pc \in {"returned", "updated"}
NoMissing(w) == \A i \in DOMAIN w : ~IsNaN(w[i])
Sum(w) == SumRange(w, 0, Length(w) - 1)
EndpointAverage(w) == Div(Add(w[0], w[Length(w) - 1]), Num(2))
Max(a, b) == IF a > b THEN a ELSE b
Min(a, b) == IF a < b THEN a ELSE b

\* C1: for every image with finite width > 0 and height > 0, whatever its
\* pixels, extractWaveformFromImageData returns a waveform with exactly
\* `width` entries, every one of them finite.
C1_WaveformCompleteAndFinite ==
  (Returned /\ result = "waveform") =>
     /\ DOMAIN waveform = 0 .. Width(image) - 1
     /\ Length(waveform) = Width(image)
     /\ \A i \in DOMAIN waveform : IsFinite(waveform[i])

\* The extraction returned although the path had both tracked and no-data
\* columns, so that missing markers entered the post-processing chain.
C1_Witness ==
  /\ pc = "returned" /\ result = "waveform"
  /\ \E i \in DOMAIN amplitude : IsNaN(amplitude[i])
  /\ \E i \in DOMAIN amplitude : IsFinite(amplitude[i])

\* Within 1 pixel of the line y = 10 + x/4 at every column of a 100-column path.
OnDiagonal(path) ==
  \A x \in 0 .. 99 : path[x] >= 0 /\ Abs(4 * (path[x] - 10) - x) <= 4

\* C2 as stated: for the 100x80 mask whose only foreground is the one-pixel
\* diagonal y = 10 + x/4, findCenterOfMassTracePath (default configuration,
\* cutoff 200) returns at every column a valid y within 1 pixel of the line.
C2_ThinDiagonalRecovered ==
  (image = DiagonalLineMask /\ pc = "trimPath") => OnDiagonal(rawTracePath)

\* C2 amended: the diagonal drawn three pixels thick is recovered within 1
\* pixel at every column; for the one-pixel diagonal every column is no-data,
\* no column having minForegroundCount = 3 foreground pixels.
C2_ThickDiagonalRecovered ==
  /\ (image = ThickDiagonalMask /\ pc = "trimPath") => OnDiagonal(rawTracePath)
  /\ (image = DiagonalLineMask /\ pc = "trimPath") =>
        \A x \in 0 .. 99 : rawTracePath[x] = -1

C2_Witness ==
  /\ image = ThickDiagonalMask /\ pc = "trimPath"
  /\ rawTracePath[0] = 10 /\ rawTracePath[99] >= 33

\* C3 as stated: for a 100-column image and a path valid exactly in columns
\* 20..79, the mask's foreground lying on that path, the trimmer returns a path
\* valid exactly in 20..79 with the input values and -1 everywhere else.
C3_SpanReturnedExactly ==
  (pc = "trimReturned" /\ pathY = SpanPath) =>
     \A x \in 0 .. 99 : tracePath[x] = IF x >= 20 /\ x <= 79 THEN pathY[x] ELSE -1

\* C3 amended: when the foreground is the path drawn three pixels thick the
\* trimmer returns the path valid exactly in 20..79; when it is the one-pixel
\* path itself the kept span is 24..78 and columns 20..23 and 79 become -1.
C3_ThickSpanReturnedExactly ==
  /\ (pc = "trimReturned" /\ <<pathY, image>> = ThickSpanInput) =>
        \A x \in 0 .. 99 : tracePath[x] = IF x >= 20 /\ x <= 79 THEN pathY[x] ELSE -1
  /\ (pc = "trimReturned" /\ <<pathY, image>> = ThinSpanInput) =>
        \A x \in 0 .. 99 : tracePath[x] = IF x >= 24 /\ x <= 78 THEN pathY[x] ELSE -1

C3_Witness ==
  /\ pc = "trimReturned" /\ <<pathY, image>> = ThickSpanInput
  /\ tracePath[20] = 40 /\ tracePath[79] = 40 /\ tracePath[19] = -1

EdgeColumns == (0 .. 9) \cup (90 .. 99)

\* C4: for a 100-column mask with a clean trace in columns 10..89 and no
\* foreground in columns 0..9 and 90..99, the edge columns are still missing
\* when gap interpolation has finished, and each then receives 0 at the
\* zero-fill step: none gets a value derived from neighbouring columns.
C4_EdgeColumnsStayMissing ==
  /\ (image = EdgeGapMask /\ pc \in {"interpolate", "zeroAndCenter"}) =>
        \A x \in EdgeColumns : IsNaN(waveform[x])
  /\ (image = EdgeGapMask /\ pc = "anchor") =>
        \A x \in EdgeColumns : waveform[x] = waveform[0]

\* C5: for the 64x64 mask whose only foreground is the row y = 32, the
\* returned waveform has 64 samples, all 0, and updateWaveform finds no usable
\* signal: prepareWaveformForAudio gives null and no coefficients are built.
C5_FlatLineIsSilent ==
  image = FlatLineMask =>
     /\ Returned => /\ result = "waveform"
                    /\ Length(waveform) = 64
                    /\ \A i \in DOMAIN waveform : waveform[i] = Zero
     /\ pc = "updated" => latestAudioWaveform = Null /\ currentPeriodicWave = Null

C5_Witness ==
  /\ image = FlatLineMask /\ pc = "updated" /\ audioContext = "running"
  /\ Length(waveform) = 64 /\ latestAudioWaveform = Null

\* C6: after the full chain (interpolate, zero-fill and centre, anchor, align,
\* anchor again) on any sequence of length >= 2, the first and the last sample
\* are equal, both 0, also when the alignment rotated the sequence.
C6_EndpointsAnchored ==
  (pc = "return" /\ Length(waveform) >= 2) =>
     /\ waveform[0] = waveform[Length(waveform) - 1]
     /\ waveform[0] = Zero

\* The chain finished on a sequence that the alignment step rotated.
C6_Witness ==
  /\ pc = "return" /\ Length(waveform) >= 4
  /\ alignStartIndex(anchorWaveformEndpointsToZero(
       zeroAndCenterWaveform(interpolateWaveform(amplitude)))) > 0
  /\ waveform[0] = Zero

\* C7 as stated: for an input without missing values the mean of the
\* sequence the full chain returns is 0.
C7_ReturnedMeanZero ==
  (pc = "return" /\ Length(amplitude) >= 1 /\ NoMissing(amplitude)) =>
     Sum(waveform) = Zero

\* C7 amended: for an input without missing values the mean is 0 when
\* zero-fill and DC centring have run; each endpoint anchoring of a sequence of
\* length >= 2 then lowers the mean by the average of the two endpoint values
\* it removes, and the rotation leaves the mean as it is.
C7_MeanThroughChain ==
  [][(Length(amplitude) >= 1 /\ NoMissing(amplitude)) =>
       LET n == Num(Length(waveform))
       IN  /\ pc = "zeroAndCenter" => Sum(waveform') = Zero
           /\ (pc \in {"anchor", "reanchor"} /\ Length(waveform) >= 2) =>
                 Div(Sum(waveform'), n) =
                   Sub(Div(Sum(waveform), n), EndpointAverage(waveform))
           /\ pc = "align" => Sum(waveform') = Sum(waveform)]_vars

\* The chain returned, from an input without missing values, a sequence
\* whose mean is not 0.
C7_Witness ==
  /\ pc = "return" /\ Length(amplitude) >= 4 /\ NoMissing(amplitude)
  /\ Sum(waveform) # Zero

\* Valid columns of path inside span.
ValidInSpan(path, span) ==
  Cardinality({x \in DOMAIN path : x >= span.start /\ x <= span.end /\ path[x] >= 0})

\* C8: whenever no span is detected, or the longest span is shorter than
\* max(12, floor(0.15 * width)) columns, or the kept span holds fewer than
\* max(10, floor(0.08 * width)) valid columns, trimTracePathByConfidence
\* returns the input path with every column unchanged.
C8_TrimAbandonedKeepsPath ==
  pc = "trimReturned" =>
     LET width == Width(image)
         spans == pathSpans(pathY, image, foregroundCutoff)
         abandoned ==
           \/ Len(spans) = 0
           \/ longestSpan(spans).length < Max(12, (15 * width) \div 100)
           \/ ValidInSpan(pathY, longestSpan(spans)) < Max(10, (8 * width) \div 100)
     IN  abandoned => tracePath = pathY

\* A 150-column input whose longest span is long enough but holds 10 or 11
\* valid columns, fewer than floor(0.08 * 150) = 12, with valid columns outside
\* the span that a trim would have removed.
C8_Witness ==
  /\ pc = "trimReturned" /\ Width(image) = 150
  /\ LET spans == pathSpans(pathY, image, foregroundCutoff)
     IN  /\ Len(spans) > 0
         /\ longestSpan(spans).length >= 22
         /\ ValidInSpan(pathY, longestSpan(spans)) \in {10, 11}
         /\ \E x \in DOMAIN pathY : x < longestSpan(spans).start /\ pathY[x] >= 0
  /\ tracePath = pathY

\* C9: extractWaveformFromImageData returns null, without running the
\* tracker, whenever the image is missing or its width or height is
\* non-finite, zero or negative; for every other input it returns a waveform.
C9_NullIffInvalidImage ==
  LET invalid == \/ ~image.present
                 \/ ~IsFinite(image.width) \/ ~IsFinite(image.height)
                 \/ image.width[1] <= 0 \/ image.height[1] <= 0
  IN  /\ Returned => (result = "null" <=> invalid)
      /\ Returned => (result = "waveform" <=> ~invalid)
      /\ invalid => rawTracePath = <<>> /\ tracePath = <<>> /\ waveform = <<>>
      /\ invalid => pc \in {"validate", "returned"}

C9_Witness ==
  /\ pc = "returned" /\ result = "null"
  /\ image.present /\ image.width = Zero /\ image.height = Num(2)

\* C10: given an audio context, buildPeriodicWaveFromSamples produces
\* coefficients iff the sample count N is at least 4; the cosine and sine
\* arrays then both have length min(128, floor(N/2)) + 1 with 0 at index 0;
\* for N < 4 it returns null.
C10_CoefficientsIffFourSamples ==
  (pc = "buildReturned" /\ audioContext = "running" /\ samples # Null) =>
     LET N == Length(samples)
     IN  /\ currentPeriodicWave # Null <=> N >= 4
         /\ currentPeriodicWave # Null =>
              /\ Length(currentPeriodicWave[1]) = Min(128, N \div 2) + 1
              /\ Length(currentPeriodicWave[2]) = Min(128, N \div 2) + 1
              /\ currentPeriodicWave[1][0] = Zero
              /\ currentPeriodicWave[2][0] = Zero

\* Coefficients were built from 300 samples, where the cap of 128 decides.
C10_Witness ==
  /\ pc = "buildReturned" /\ audioContext = "running" /\ samples # Null
  /\ Length(samples) = 300
  /\ currentPeriodicWave # Null /\ Length(currentPeriodicWave[1]) = 129

\* p is the largest absolute value among the finite entries of w (0 if none).
IsPeakOf(w, p) ==
  /\ \A i \in DOMAIN w : IsFinite(w[i]) => Le(AbsNum(w[i]), p)
  /\ \/ \E i \in DOMAIN w : IsFinite(w[i]) /\ AbsNum(w[i]) = p
     \/ p = Zero /\ \A i \in DOMAIN w : ~IsFinite(w[i]) \/ w[i] = Zero

\* C11: prepareWaveformForAudio never amplifies.  It returns null when the
\* largest absolute sample is below 1e-6; otherwise it returns the samples, the
\* non-finite ones replaced by 0, unchanged when the peak is <= 1 and divided
\* by the peak when it is > 1: the result's largest absolute value is <= 1 and
\* no sample is larger in absolute value than in the input.
C11_PrepareNeverAmplifies ==
  (pc = "prepareReturned" /\ samples # Null) =>
     \E p \in {Zero} \cup {AbsNum(samples[i]) : i \in DOMAIN samples} :
        /\ IsPeakOf(samples, p)
        /\ latestAudioWaveform = Null <=> Lt(p, Frac(1, 1000000))
        /\ latestAudioWaveform # Null =>
              /\ DOMAIN latestAudioWaveform = DOMAIN samples
              /\ \A i \in DOMAIN samples :
                    LET in == IF IsFinite(samples[i]) THEN samples[i] ELSE Zero
                        out == latestAudioWaveform[i]
                    IN  /\ Le(p, One) => out = in
                        /\ Gt(p, One) => Mul(out, p) = in
                        /\ Le(AbsNum(out), One)
                        /\ Le(AbsNum(out), AbsNum(in))

\* A waveform with a non-finite entry and a peak above 1 was scaled down, and
\* its largest sample is now 1 in absolute value.
C11_Witness ==
  /\ pc = "prepareReturned" /\ samples # Null /\ latestAudioWaveform # Null
  /\ \E i \in DOMAIN samples : ~IsFinite(samples[i])
  /\ \E i \in DOMAIN samples : Gt(AbsNum(samples[i]), One)
  /\ \E i \in DOMAIN samples : AbsNum(latestAudioWaveform[i]) = One
  /\ \E i \in DOMAIN samples : Lt(AbsNum(latestAudioWaveform[i]), AbsNum(samples[i]))

\* C12: preprocessImage never modifies the buffer it is given.  No stage
\* (grayscale, denoise, flatten, contrast, threshold, cleanup) writes into an
\* object that existed before it ran, so the input's data, width and height
\* are unchanged after the call; each stage returns a new object of the width
\* and height it was given, and the returned buffer is not the input.
C12_InputNeverModified ==
  [][/\ \A r \in DOMAIN heap : r \in DOMAIN heap' /\ heap'[r] = heap[r]
     /\ refs' # refs =>
           LET given == refs[Len(refs)]
               returned == refs'[Len(refs')]
           IN  /\ returned \notin DOMAIN heap
               /\ returned \in DOMAIN heap'
               /\ heap'[returned].width = heap[given].width
               /\ heap'[returned].height = heap[given].height
     /\ (pc' = "preprocessed" /\ result' = "image") =>
           /\ refs'[Len(refs')] # refs'[1]
           /\ heap'[refs'[Len(refs')]].width = heap'[refs'[1]].width
           /\ heap'[refs'[Len(refs')]].height = heap'[refs'[1]].height]_vars

\* The call returned a cleaned mask whose bytes differ from the input's: the
\* six stages ran and wrote, each into an object of its own.
C12_Witness ==
  /\ pc = "preprocessed" /\ result = "image"
  /\ Len(refs) = 7 /\ Len(heap) = 7
  /\ heap[refs[7]].data # heap[refs[1]].data
  /\ heap[refs[2]].data # heap[refs[1]].data

\* g is round(0.299 r + 0.587 g + 0.114 b), halves upwards.
IsLuma(g, r, gr, b) ==
  LET n == 299 * r + 587 * gr + 114 * b
  IN  2 * n - 1000 < 2000 * g /\ 2000 * g <= 2 * n + 1000

\* C13: for any RGBA input, every pixel of rgbaToGrayscale's output has
\* R = G = B = round(0.299 R + 0.587 G + 0.114 B) of the input pixel and
\* A = 255, and applying the stage to its own output gives an identical buffer.
C13_GrayscaleIdempotent ==
  /\ pc \in {"grayscaleAgain", "grayscaleDone"} =>
        LET in == heap[refs[1]]
            out == heap[refs[2]]
        IN  /\ out.width = in.width /\ out.height = in.height
            /\ DOMAIN out.data = DOMAIN in.data
            /\ \A k \in 0 .. in.width * in.height - 1 :
                  /\ IsLuma(out.data[4 * k], in.data[4 * k], in.data[4 * k + 1],
                            in.data[4 * k + 2])
                  /\ out.data[4 * k + 1] = out.data[4 * k]
                  /\ out.data[4 * k + 2] = out.data[4 * k]
                  /\ out.data[4 * k + 3] = 255
  /\ pc = "grayscaleDone" => heap[refs[3]] = heap[refs[2]]

\* The stage ran twice on a coloured, half-transparent pixel: the first run
\* changed the buffer, the second did not.
C13_Witness ==
  /\ pc = "grayscaleDone" /\ Len(refs) = 3 /\ refs[3] # refs[2]
  /\ heap[refs[1]].data[0] = 100 /\ heap[refs[1]].data[1] = 255
  /\ heap[refs[1]].data[3] = 0
  /\ heap[refs[2]] # heap[refs[1]]
  /\ heap[refs[3]] = heap[refs[2]]

\* The red-channel values present in an ImageData.
RedValues(imageData) ==
  {imageData.data[4 * k] : k \in 0 .. Length(imageData.data) \div 4 - 1}

\* C14: for any non-empty grayscale buffer getGrayPercentile is monotone in
\* p (so percentile 0 <= percentile 50 <= percentile 100), percentile 100 is
\* the largest red-channel value present and percentile 0 the smallest, a
\* percentile outside [0, 100] counts as the nearest bound, and the buffer is
\* not modified.
C14_PercentileMonotone ==
  [][pc = "percentileCall" =>
       LET buffer == heap[refs[1]]
           reds == RedValues(buffer)
       IN  /\ heap' = heap
           /\ percentileOut' \in reds
           /\ \A q \in Percentiles :
                 q <= percentile => getGrayPercentile(buffer, q) <= percentileOut'
           /\ getGrayPercentile(buffer, 0) <= getGrayPercentile(buffer, 50)
           /\ getGrayPercentile(buffer, 50) <= getGrayPercentile(buffer, 100)
           /\ percentile >= 100 => \A v \in reds : v <= percentileOut'
           /\ percentile <= 0 => \A v \in reds : v >= percentileOut'
           /\ percentile > 100 => percentileOut' = getGrayPercentile(buffer, 100)
           /\ percentile < 0 => percentileOut' = getGrayPercentile(buffer, 0)]_vars

\* The median of a buffer with three different values was asked for and lies
\* strictly between the smallest and the largest one.
C14_Witness ==
  /\ pc = "percentileReturned" /\ percentile = 50
  /\ Cardinality(RedValues(heap[refs[1]])) >= 3
  /\ \E lo, hi \in RedValues(heap[refs[1]]) : lo < percentileOut /\ percentileOut < hi

\* Every pixel of the ImageData is <<v, v, v, 255>>.
UniformAt(imageData, v) ==
  \A i \in DOMAIN imageData.data : imageData.data[i] = IF i % 4 = 3 THEN 255 ELSE v

\* C15: a constant brightness offset on a uniformly lit grayscale image does
\* not change the output of illumination flattening followed by contrast
\* normalization: whatever the level of the uniform input, the flattened
\* output is flattenBias at every pixel and the contrast stage passes it
\* through unchanged.
C15_UniformFlattensToBias ==
  \A v \in 0 .. 255 :
     (Len(refs) >= 4 /\ pc \in {"contrast", "threshold"} /\ UniformAt(heap[refs[3]], v)) =>
        /\ UniformAt(heap[refs[4]], defaultConfig.flattenBias)
        /\ heap[refs[4]].width = heap[refs[3]].width
        /\ heap[refs[4]].height = heap[refs[3]].height
        /\ pc = "threshold" => heap[refs[5]] = heap[refs[4]]

\* A 4x13 image lit uniformly at 200 went through flattening and contrast
\* normalization and came out at 118.
C15_Witness ==
  /\ pc = "threshold" /\ Len(refs) = 5
  /\ heap[refs[3]].width = 4 /\ heap[refs[3]].height = 13
  /\ UniformAt(heap[refs[3]], 200)
  /\ UniformAt(heap[refs[5]], 118)

\* The indices i at which w rises through zero: w[i] <= 0 and w[i+1] >= 0.
RisingAt(w) ==
  {i \in 0 .. Length(w) - 2 : Le(w[i], Zero) /\ Ge(w[i + 1], Zero)}

CrossingScore(w, i) == Add(AbsNum(w[i]), AbsNum(w[i + 1]))

\* w rotated so that the sample of the crossing at i that is closer to zero
\* (w[i] when both are as close) is at index 0.
RotatedToCrossing(w, i) ==
  LET start == IF Le(AbsNum(w[i]), AbsNum(w[i + 1])) THEN i ELSE i + 1
  IN  [j \in DOMAIN w |-> w[(start + j) % Length(w)]]

\* C16 as stated: a sequence of length >= 4 is rotated so that its earliest
\* rising zero-crossing comes to index 0, the new start being whichever of the
\* two bracketing samples is closer to zero.
C16_EarliestCrossingFirst ==
  (pc = "reanchor" /\ Length(amplitude) >= 4 /\ RisingAt(amplitude) # {}) =>
     \E i \in RisingAt(amplitude) :
        /\ \A k \in RisingAt(amplitude) : i <= k
        /\ waveform = RotatedToCrossing(amplitude, i)

\* C16 amended: a sequence of length >= 4 with a rising zero-crossing is
\* rotated so that the rising crossing with the smallest |w[i]| + |w[i+1]|,
\* the earliest of those with that sum, comes to index 0, the new start being
\* whichever of the two bracketing samples is closer to zero; the rotation is
\* a circular shift that keeps the length and the cyclic order.
C16_TightestCrossingFirst ==
  (pc = "reanchor" /\ Length(amplitude) >= 4 /\ RisingAt(amplitude) # {}) =>
     \E i \in RisingAt(amplitude) :
        /\ \A k \in RisingAt(amplitude) :
              \/ Lt(CrossingScore(amplitude, i), CrossingScore(amplitude, k))
              \/ CrossingScore(amplitude, i) = CrossingScore(amplitude, k) /\ i <= k
        /\ waveform = RotatedToCrossing(amplitude, i)
        /\ DOMAIN waveform = DOMAIN amplitude
        /\ \E s \in DOMAIN amplitude :
              \A j \in DOMAIN amplitude :
                 waveform[j] = amplitude[(s + j) % Length(amplitude)]

\* The sequence had two rising crossings, the later one strictly tighter, and
\* was rotated to the later one.
C16_Witness ==
  /\ pc = "reanchor" /\ Length(amplitude) >= 4
  /\ \E i, k \in RisingAt(amplitude) :
        /\ i < k
        /\ Lt(CrossingScore(amplitude, k), CrossingScore(amplitude, i))
        /\ \A m \in RisingAt(amplitude) :
              Le(CrossingScore(amplitude, k), CrossingScore(amplitude, m))
        /\ waveform = RotatedToCrossing(amplitude, k)
        /\ waveform # RotatedToCrossing(amplitude, i)

\* C17: every column that the left-to-right pass leaves no-data is still
\* no-data (-1) in the path findCenterOfMassTracePath returns; filtering
\* makes no column valid.
C17_NoDataStaysNoData ==
  pc = "trimPath" =>
     \A x \in DOMAIN rawTracePath :
        ~IsFinite(rawCenterOfMassPath(image, foregroundCutoff)[x])
           => rawTracePath[x] = -1

\* The rows yMin .. yMax of column x at or above the foreground cutoff, and
\* their brightness-weighted centroid.
ForegroundRows(img, x, yMin, yMax) ==
  {y \in yMin .. yMax : Pixel(img, x, y) >= foregroundCutoff}

RECURSIVE BrightnessOver(_, _, _)
BrightnessOver(img, x, rows) ==
  IF rows = {} THEN 0
  ELSE LET y == CHOOSE r \in rows : TRUE
       IN  Pixel(img, x, y) + BrightnessOver(img, x, rows \ {y})

RECURSIVE MomentOver(_, _, _)
MomentOver(img, x, rows) ==
  IF rows = {} THEN 0
  ELSE LET y == CHOOSE r \in rows : TRUE
       IN  y * Pixel(img, x, y) + MomentOver(img, x, rows \ {y})

Centroid(img, x, rows) == Frac(MomentOver(img, x, rows), BrightnessOver(img, x, rows))

\* The centre of the band of column x, given the raw path to its left.
PredictedCentre(path, x, height) ==
  IF x > 1 /\ IsFinite(path[x - 1]) /\ IsFinite(path[x - 2])
  THEN Add(path[x - 1], Sub(path[x - 1], path[x - 2]))
  ELSE IF x > 0 /\ IsFinite(path[x - 1]) THEN path[x - 1]
  ELSE Frac(height, 2)

\* The rows of the image from the row at or below centre - 20 to the row at
\* or above centre + 20.
BandAround(centre, height) ==
  {y \in 0 .. height - 1 :
     /\ y >= Floor(Sub(centre, Num(20)))
     /\ y <= Ceil(Add(centre, Num(20)))}

\* The band of column x.
SearchedBand(path, x, height) ==
  BandAround(PredictedCentre(path, x, height), height)

\* The centroid of column x searched in band: that of the band's foreground
\* rows when there are at least 3 of them, else that of the column's, NaN
\* when the column has fewer than 3.
CentroidIn(img, x, band) ==
  LET inColumn == ForegroundRows(img, x, 0, Height(img) - 1)
      inBand == inColumn \cap band
  IN  IF Cardinality(inBand) >= 3 THEN Centroid(img, x, inBand)
      ELSE IF Cardinality(inColumn) >= 3 THEN Centroid(img, x, inColumn)
      ELSE NaN

\* The centroid found for column x.
CentroidFound(img, path, x) ==
  CentroidIn(img, x, SearchedBand(path, x, Height(img)))

\* C18: when column x-1 holds a valid estimate prev and the centroid found
\* for column x differs from prev by more than maxJumpPx (12), column x is
\* no-data in the raw path; any two adjacent valid columns of the raw path
\* differ by at most 12.
C18_JumpsRejected ==
  pc = "medianFilter" =>
     \A x \in 1 .. Width(image) - 1 :
        /\ (IsFinite(pathY[x - 1])
              /\ Gt(AbsNum(Sub(CentroidFound(image, pathY, x), pathY[x - 1])), Num(12)))
           => ~IsFinite(pathY[x])
        /\ (IsFinite(pathY[x - 1]) /\ IsFinite(pathY[x]))
           => Le(AbsNum(Sub(pathY[x], pathY[x - 1])), Num(12))

\* A column whose centroid lies more than 12 rows from the valid estimate to
\* its left was marked no-data, and in the same mask a column exactly 12 rows
\* from its left neighbour was kept.
C18_Witness ==
  /\ pc = "medianFilter"
  /\ \E x \in 1 .. Width(image) - 1 :
        /\ IsFinite(pathY[x - 1])
        /\ IsFinite(CentroidFound(image, pathY, x))
        /\ Gt(AbsNum(Sub(CentroidFound(image, pathY, x), pathY[x - 1])), Num(12))
        /\ ~IsFinite(pathY[x])
  /\ \E x \in 1 .. Width(image) - 1 :
        /\ IsFinite(pathY[x - 1]) /\ IsFinite(pathY[x])
        /\ AbsNum(Sub(pathY[x], pathY[x - 1])) = Num(12)

\* The rows of the image inside the interval [predicted - 20, predicted + 20].
StatedBand(path, x, height) ==
  LET centre == PredictedCentre(path, x, height)
  IN  {y \in 0 .. height - 1 :
         /\ Le(Sub(centre, Num(20)), Num(y))
         /\ Le(Num(y), Add(centre, Num(20)))}

\* What the loop stores for column x when the search yields centroid: no-data
\* when there is none or it jumps away from a valid left neighbour.
StoredFor(centroid, path, x) ==
  IF ~IsFinite(centroid) THEN NaN
  ELSE IF x > 0 /\ IsFinite(path[x - 1])
          /\ Gt(AbsNum(Sub(centroid, path[x - 1])), Num(12))
       THEN NaN
       ELSE centroid

\* C19 as stated: the band of column x is centred at prev + (prev - prev2)
\* when columns x-1 and x-2 are both valid, at prev when only x-1 is, at
\* height/2 otherwise; it is the interval [predicted - 20, predicted + 20]
\* clamped to rows 0..height-1, and the whole column is searched only when the
\* band holds fewer than 3 foreground pixels.
C19_BandIsStatedInterval ==
  pc = "medianFilter" =>
     \A x \in 0 .. Width(image) - 1 :
        pathY[x] = StoredFor(CentroidIn(image, x, StatedBand(pathY, x, Height(image))),
                             pathY, x)

\* C19 amended: the same centre; the band runs from the row at or below
\* predicted - 20 to the row at or above predicted + 20, clamped to rows
\* 0..height-1, and the whole column is searched only when the band holds
\* fewer than 3 foreground pixels.
C19_BandRoundedOutward ==
  pc = "medianFilter" =>
     \A x \in 0 .. Width(image) - 1 :
        /\ SearchedBand(pathY, x, Height(image)) # {}
        /\ StatedBand(pathY, x, Height(image)) \subseteq SearchedBand(pathY, x, Height(image))
        /\ pathY[x] = StoredFor(CentroidFound(image, pathY, x), pathY, x)

\* Column 2 was searched in a band centred at prev + (prev - prev2) and
\* column 1 in one centred at prev: each holds the centroid of its band, which
\* is neither that of the whole column nor, for column 2, that of the band
\* centred at prev.
C19_Witness ==
  /\ pc = "medianFilter" /\ Width(image) = 3
  /\ IsFinite(pathY[0]) /\ IsFinite(pathY[1]) /\ IsFinite(pathY[2])
  /\ pathY[1] # pathY[0]
  /\ pathY[2] = CentroidFound(image, pathY, 2)
  /\ pathY[2] # CentroidIn(image, 2, 0 .. Height(image) - 1)
  /\ pathY[2] # CentroidIn(image, 2, BandAround(pathY[1], Height(image)))
  /\ pathY[1] = CentroidFound(image, pathY, 1)
  /\ pathY[1] # CentroidIn(image, 1, 0 .. Height(image) - 1)

\* Columns x - 5 .. x all hold a smoothed confidence at or above
\* highThreshold: column x completes a run of enterRun columns.
CompletesRun(x) ==
  /\ x >= 5
  /\ \A k \in x - 5 .. x : atOrAboveHigh(confidence[k])

\* C20: while Searching, the scan enters InSpan exactly at the first column
\* that completes a run of 6 consecutive columns with smoothed confidence at
\* or above highThreshold; the span's start is the first column of that run,
\* x - 6 + 1; a column below highThreshold resets the run counter to 0.
C20_EntryAfterRun ==
  [][(pc = "scan" /\ column < Width(image) /\ ~scan.inTrace) =>
        /\ scan'.inTrace <=> CompletesRun(column)
        /\ scan'.inTrace => scan'.start = column - 6 + 1
        /\ ~atOrAboveHigh(confidence[column]) => scan'.highCount = 0]_vars

\* The scan has just entered a span that starts after column 0: the column
\* before the run was below highThreshold although an earlier column was at
\* or above it, so the counter had been reset.
C20_Witness ==
  /\ pc = "scan" /\ scan.inTrace
  /\ scan.start = column - 6 /\ scan.start > 0
  /\ CompletesRun(column - 1)
  /\ ~atOrAboveHigh(confidence[scan.start - 1])
  /\ \E k \in 0 .. scan.start - 2 : atOrAboveHigh(confidence[k])

\* Columns x - 7 .. x all hold a smoothed confidence at or below
\* lowThreshold: column x completes a run of exitRun columns.
CompletesLowRun(x) ==
  /\ x >= 7
  /\ \A k \in x - 7 .. x : atOrBelowLow(confidence[k])

\* C21: while InSpan, the span closes exactly at the first column x that
\* completes a run of 8 consecutive columns with smoothed confidence at or
\* below lowThreshold; the closed span runs from the recorded start to
\* x - 8, and the scan is Searching again with both counters 0; a column
\* above lowThreshold never closes a span; a span still open after the last
\* column is closed with end = width - 1.
C21_ExitAfterLowRun ==
  [][/\ (pc = "scan" /\ column < Width(image) /\ scan.inTrace) =>
          /\ ~scan'.inTrace <=> CompletesLowRun(column)
          /\ ~atOrBelowLow(confidence[column]) =>
                scan'.inTrace /\ scan'.spans = scan.spans
          /\ ~scan'.inTrace =>
                /\ scan'.spans = Append(scan.spans,
                                   [start |-> scan.start, end |-> column - 8,
                                    length |-> column - 8 - scan.start + 1])
                /\ scan'.highCount = 0 /\ scan'.lowCount = 0
          /\ scan'.inTrace => scan'.spans = scan.spans /\ scan'.start = scan.start
     /\ (pc = "scan" /\ column >= Width(image) /\ pc' = "selectSpan") =>
          IF scan.inTrace
          THEN scan'.spans = Append(scan.spans,
                               [start |-> scan.start, end |-> Width(image) - 1,
                                length |-> Width(image) - scan.start])
          ELSE scan'.spans = scan.spans]_vars

\* The loop is over: one span was closed by a run of 8 low columns before the
\* last column, a later one was still open and was closed at the right edge.
C21_Witness ==
  /\ pc = "selectSpan" /\ Len(scan.spans) = 2
  /\ scan.spans[1].end < Width(image) - 9
  /\ CompletesLowRun(scan.spans[1].end + 8)
  /\ scan.inTrace /\ scan.spans[2].start = scan.start
  /\ scan.spans[2].end = Width(image) - 1

\* The positions in spans of the longest span, the first one among equally
\* long ones.
FirstLongest(spans) ==
  {i \in 1 .. Len(spans) :
     /\ \A j \in 1 .. Len(spans) : spans[j].length <= spans[i].length
     /\ \A j \in 1 .. i - 1 : spans[j].length < spans[i].length}

\* The trim is applied to the spans the scan detected: the longest span has
\* at least max(12, floor(0.15 * width)) columns and holds at least
\* max(10, floor(0.08 * width)) valid columns.
TrimApplied(i) ==
  /\ scan.spans[i].length >= Max(12, (15 * Width(image)) \div 100)
  /\ ValidInSpan(pathY, scan.spans[i]) >= Max(10, (8 * Width(image)) \div 100)

\* C22: when the trim is applied, trimTracePathByConfidence returns a path of
\* the same length in which every column inside the longest detected span
\* (the first among equally long ones) keeps its input value and every column
\* outside it is -1; for every input, each output column is the input value
\* or -1.
C22_TrimKeepsLongestSpan ==
  pc = "trimReturned" =>
     /\ DOMAIN tracePath = DOMAIN pathY
     /\ \A x \in DOMAIN pathY : tracePath[x] = pathY[x] \/ tracePath[x] = -1
     /\ \A x \in DOMAIN pathY : pathY[x] = -1 => tracePath[x] = -1
     /\ \A i \in FirstLongest(scan.spans) :
           TrimApplied(i) =>
              \A x \in DOMAIN pathY :
                 tracePath[x] = IF x >= scan.spans[i].start /\ x <= scan.spans[i].end
                                THEN pathY[x] ELSE -1

\* Two spans of the same length were detected and the trim was applied: the
\* first span's columns kept their values and the valid columns of the second
\* became -1.
C22_Witness ==
  /\ pc = "trimReturned" /\ Len(scan.spans) = 2
  /\ scan.spans[1].length = scan.spans[2].length
  /\ FirstLongest(scan.spans) = {1} /\ TrimApplied(1)
  /\ \E x \in DOMAIN pathY :
        x >= scan.spans[1].start /\ x <= scan.spans[1].end
          /\ pathY[x] >= 0 /\ tracePath[x] = pathY[x]
  /\ \E x \in DOMAIN pathY :
        x >= scan.spans[2].start /\ x <= scan.spans[2].end
          /\ pathY[x] >= 0 /\ tracePath[x] = -1

\* The valid index nearest to i on its left, -1 when there is none, and the
\* one nearest on its right, the length of w when there is none.
ValidBefore(w, i) ==
  LET valid == {k \in DOMAIN w : k < i /\ ~IsNaN(w[k])}
  IN  IF valid = {} THEN -1 ELSE CHOOSE k \in valid : \A m \in valid : m <= k

ValidAfter(w, i) ==
  LET valid == {k \in DOMAIN w : k > i /\ ~IsNaN(w[k])}
  IN  IF valid = {} THEN Length(w) ELSE CHOOSE k \in valid : \A m \in valid : m >= k

\* C23: interpolateWaveform fills a maximal run of missing values iff the run
\* has a valid value on both sides and at most 30 entries; the j-th entry of a
\* filled run of length g between a and b becomes a + (b - a) * j / (g + 1);
\* longer runs and runs touching index 0 or the last index stay missing; valid
\* entries are not changed.
C23_GapsFilledLinearly ==
  pc = "zeroAndCenter" =>
     /\ DOMAIN waveform = DOMAIN amplitude
     /\ \A i \in DOMAIN amplitude :
           IF ~IsNaN(amplitude[i]) THEN waveform[i] = amplitude[i]
           ELSE LET s == ValidBefore(amplitude, i)
                    e == ValidAfter(amplitude, i)
                    g == e - s - 1
                IN  IF s >= 0 /\ e < Length(amplitude) /\ g <= 30
                    THEN waveform[i] =
                           Add(amplitude[s],
                               Div(Mul(Sub(amplitude[e], amplitude[s]), Num(i - s)),
                                   Num(g + 1)))
                    ELSE IsNaN(waveform[i])

\* A run of exactly 30 missing values between -1/2 and 1 was filled: its
\* first entry holds -1/2 + (3/2) / 31.
C23_Witness ==
  /\ pc = "zeroAndCenter" /\ Length(amplitude) = 33
  /\ amplitude[0] = Frac(-1, 2) /\ amplitude[31] = One
  /\ \A i \in 1 .. 30 : IsNaN(amplitude[i]) /\ IsFinite(waveform[i])
  /\ waveform[1] = Frac(-14, 31)
  /\ waveform[0] = amplitude[0] /\ waveform[31] = amplitude[31]

\* The offsets (dx, dy) of the 3x3 neighbourhood of pixel k whose cell, with
\* its coordinates clamped to the buffer, has red = 255.
ForegroundOffsets(data, width, height, k) ==
  {d \in (-1 .. 1) \X (-1 .. 1) :
     LET x == Max(0, Min(width - 1, (k % width) + d[1]))
         y == Max(0, Min(height - 1, (k \div width) + d[2]))
     IN  data[4 * (y * width + x)] = 255}

\* A whole-buffer function: pixel k of the result is 255 where keep holds of
\* k, else 0, with alpha 255.
MaskWhere(keep, width, height) ==
  [i \in 0 .. 4 * width * height - 1 |->
     IF i % 4 = 3 THEN 255 ELSE IF (i \div 4) \in keep THEN 255 ELSE 0]

SuppressOf(data, width, height) ==
  MaskWhere({k \in 0 .. width * height - 1 :
               /\ data[4 * k] = 255
               /\ Cardinality(ForegroundOffsets(data, width, height, k) \ {<<0, 0>>})
                    >= defaultConfig.minIsolatedNeighborCount},
            width, height)

DilateOf(data, width, height) ==
  MaskWhere({k \in 0 .. width * height - 1 :
               ForegroundOffsets(data, width, height, k) # {}},
            width, height)

ErodeOf(data, width, height) ==
  MaskWhere({k \in 0 .. width * height - 1 :
               Cardinality(ForegroundOffsets(data, width, height, k))
                 >= defaultConfig.erodeMinForegroundCount},
            width, height)

\* C24: cleanupMask returns erode(dilate(suppress(input))), three
\* whole-buffer functions each applied to the finished output of the one
\* before: suppress keeps a foreground pixel iff at least
\* minIsolatedNeighborCount of its 8 clamped neighbours are foreground,
\* dilate sets a pixel iff any of its 9 clamped cells is foreground, erode
\* sets it iff at least erodeMinForegroundCount of the 9 are.
C24_CleanupIsComposition ==
  LET input == heap[refs[1]]
      w == input.width
      h == input.height
      suppressed == SuppressOf(input.data, w, h)
      dilated == DilateOf(suppressed, w, h)
      eroded == ErodeOf(dilated, w, h)
  IN  /\ pc \in {"stageCall2", "stageCall3", "copyOut"} => buffers.stageB = suppressed
      /\ pc \in {"stageCall3", "copyOut"} => buffers.stageC = dilated
      /\ pc = "copyOut" => buffers.stageA = eroded
      /\ pc = "cleanupReturned" =>
            /\ heap[refs[2]].data = eroded
            /\ heap[refs[2]] = cleanupMask(<<input>>, 1)[1][2]
            /\ refs[2] # refs[1]

\* A mask was cleaned and every call changed something: the suppressed mask,
\* the dilated one and the eroded one differ from each other and from the
\* input, and the result keeps some pixels and clears others.
C24_Witness ==
  /\ pc = "cleanupReturned"
  /\ buffers.stageB # heap[refs[1]].data
  /\ buffers.stageC # buffers.stageB
  /\ buffers.stageA # buffers.stageC
  /\ heap[refs[2]].data # heap[refs[1]].data
  /\ \E k, m \in 0 .. heap[refs[1]].width * heap[refs[1]].height - 1 :
        heap[refs[2]].data[4 * k] = 255 /\ heap[refs[2]].data[4 * m] = 0


---------------------------------------------------------------------------
(* The play button *)

\* The oscillators started and not yet stopped.
Playing == {i \in 1 .. Len(oscillators) : oscillators[i].state = "started"}

\* C25: under every interleaving of play-button clicks with the awaited
\* resume(), at most one oscillator is started and not yet stopped, and an
\* oscillator started and not yet stopped is the one synthOscillator
\* references.
C25_OneReachableOscillator ==
  /\ Cardinality(Playing) <= 1
  /\ \A i \in Playing : synthOscillator = i


\* The coefficients harmonic synthesis yields for the waveform last accepted,
\* or Null.
LatestCoefficients == buildPeriodicWaveFromSamples("running", latestAudioWaveform)

\* C29: an oscillator that startSynth started carries a periodic wave, the
\* one built from the latest accepted waveform if it is the oscillator
\* referenced, and 'Audio: waveform ready' is reported only for a waveform
\* from which harmonic synthesis yields coefficients.
C29_PlaysOnlyCoefficients ==
  /\ \A i \in Playing :
       /\ oscillators[i].wave # Null
       /\ (i = synthOscillator /\ latestAudioWaveform # Null) =>
            oscillators[i].wave = LatestCoefficients
  /\ status = "Audio: waveform ready" => LatestCoefficients # Null


---------------------------------------------------------------------------
(* The camera buttons *)

\* The streams obtained whose tracks have not been stopped.
Live == {i \in 1 .. Len(streams) : streams[i] = "live"}

\* C26: under every interleaving of camera clicks with pending getUserMedia
\* calls, a stream that was obtained and whose tracks have not been stopped
\* is the one currentStream holds.
C26_NoStreamWithoutReference == \A i \in Live : currentStream = i


---------------------------------------------------------------------------
(* The alignment after the anchoring *)

\* C27: a waveform of 4 or more samples reaches the alignment with its first
\* and last samples 0 and with a rising zero-crossing, so that the rising
\* loop finds an index and the closest-to-zero fallback is not taken.
C27_FallbackNeverTaken ==
  (pc = "align" /\ Length(waveform) >= 4) =>
     /\ waveform[0] = Zero /\ waveform[Length(waveform) - 1] = Zero
     /\ RisingAt(waveform) # {}
     /\ RisingLoop(waveform, 0, Length(waveform) - 2)[1] >= 0
     /\ alignStartIndex(waveform) = RisingLoop(waveform, 0, Length(waveform) - 2)[1]

\* An anchored waveform of 4 or more samples that falls below zero right
\* after its start: its rising crossings are further right.
C27_Witness ==
  /\ pc = "align" /\ Length(waveform) >= 4
  /\ Lt(waveform[1], Zero)
  /\ 0 \notin RisingAt(waveform)
  /\ \E i \in RisingAt(waveform) : i > 0 /\ i < Length(waveform) - 2


---------------------------------------------------------------------------
(* The tracker after a no-data column *)

\* The centroid of column x searched in the band centred at height/2.
CentroidAtMiddle(img, x) ==
  CentroidIn(img, x, BandAround(Frac(Height(img), 2), Height(img)))

\* C28: a column whose preceding column is no-data in the raw path holds the
\* centroid searched in the band centred at height/2, no-data only when the
\* column has fewer than 3 foreground pixels: it is never rejected as a
\* jump, whatever valid estimates lie further left.
C28_NoHistoryAcrossGap ==
  pc = "medianFilter" =>
     \A x \in 1 .. Width(image) - 1 :
        ~IsFinite(pathY[x - 1]) =>
           /\ pathY[x] = CentroidAtMiddle(image, x)
           /\ IsFinite(pathY[x])
                <=> Cardinality(ForegroundRows(image, x, 0, Height(image) - 1)) >= 3

\* Columns 0 and 2 are valid, column 1 between them is no-data, and columns
\* 0 and 2 differ by more than 12; column 2 holds the centroid of the band
\* centred at height/2, which is not what a band centred at column 0's
\* estimate yields.
C28_Witness ==
  /\ pc = "medianFilter" /\ Width(image) = 3
  /\ IsFinite(pathY[0]) /\ ~IsFinite(pathY[1]) /\ IsFinite(pathY[2])
  /\ Gt(AbsNum(Sub(pathY[2], pathY[0])), Num(12))
  /\ pathY[2] = CentroidAtMiddle(image, 2)
  /\ pathY[2] # CentroidIn(image, 2, BandAround(pathY[0], Height(image)))


---------------------------------------------------------------------------
(* The threshold stage *)

\* Every pixel of the image has the colour of its first pixel.
IsUniform(imageData) ==
  \A i \in DOMAIN imageData.data : imageData.data[i] = imageData.data[i % 4]

===========================================================================
